---- MODULE Spec2Model ----
(***************************************************************************)
(* Verification model of the wargamelongrun turn-based strategy engine:    *)
(* TileGrid and the two pathfinders (engine/map/MapEngine.ts), the combat  *)
(* resolver and manager (engine/combat), the unit manager                  *)
(* (engine/units/UnitManager.ts) and the turn and economy engines          *)
(* (engine/turns/TurnEngine.ts).                                           *)
(*                                                                         *)
(* Coordinates are pairs <<x, y>>.  Fractions of the source (terrain       *)
(* defense bonus 1.3, random factor 0.8..1.2, reproduction chance 0.15)    *)
(* are kept as integers in tenths or hundredths and every formula is       *)
(* evaluated over a common denominator, so that rounding is exact.         *)
(***************************************************************************)
EXTENDS Integers, Sequences, FiniteSets, TLC

\* ------------------------------------------------------------------------
\* Bounds of the model
\* ------------------------------------------------------------------------

\* grid width and height used by the pathfinding specification
W == 3
H == 3
\* at most this many cells of the pathfinding grid differ from plain grassland
MaxEdits == 2
\* the finite movement budget tried besides the default (Infinity)
Budget == 3
\* the values of Math.random() tried by the combat specification are the
\* RollSteps + 1 evenly spaced ones from 0 to 1
RollSteps == 4
\* width and height of the map of the turn specification
TurnW == 3
TurnH == 2
\* resolveTurn is called while currentTurn is below MaxTurn
MaxTurn == 3
\* at most this many actions are submitted in one turn
MaxActions == 2
\* the number of distinct values of Date.now()
ClockTicks == 1
\* the monthly productions of the economy specification
MaxMonths == 2
\* resetUnitsForTurn is called at most this many times in a row
MaxResets == 2
\* the build specification calls resolveTurn while the turn counter is below this
MaxBuildTurn == 4

\* ------------------------------------------------------------------------
\* Small arithmetic helpers (Math.abs, Math.max, Math.min)
\* ------------------------------------------------------------------------

Abs(n) == IF n < 0 THEN -n ELSE n
Max2(a, b) == IF a >= b THEN a ELSE b
Min2(a, b) == IF a <= b THEN a ELSE b

\* ------------------------------------------------------------------------
\* models/terrain.ts : terrain reference data (a representative subset of the
\* 39 terrain kinds: cost 1, 2, 3 and 4 land, two naval kinds, two impassable)
\* ------------------------------------------------------------------------

TerrainKinds == {"grass", "lifo", "hefo", "moun", "mer", "reef", "vol", "lava"}

\* defenseBonus is in tenths (1.3 -> 13)
TERRAIN_DEFS ==
  [t \in TerrainKinds |->
     CASE t = "grass" -> [movementCost |-> 1, defenseBonus |-> 10, foodProduction |-> 2,
                          isPassable |-> TRUE, isNavalPassable |-> FALSE]
       [] t = "lifo"  -> [movementCost |-> 2, defenseBonus |-> 12, foodProduction |-> 1,
                          isPassable |-> TRUE, isNavalPassable |-> FALSE]
       [] t = "hefo"  -> [movementCost |-> 3, defenseBonus |-> 13, foodProduction |-> 1,
                          isPassable |-> TRUE, isNavalPassable |-> FALSE]
       [] t = "moun"  -> [movementCost |-> 4, defenseBonus |-> 15, foodProduction |-> 0,
                          isPassable |-> TRUE, isNavalPassable |-> FALSE]
       [] t = "mer"   -> [movementCost |-> 1, defenseBonus |-> 10, foodProduction |-> 1,
                          isPassable |-> FALSE, isNavalPassable |-> TRUE]
       [] t = "reef"  -> [movementCost |-> 2, defenseBonus |-> 12, foodProduction |-> 1,
                          isPassable |-> FALSE, isNavalPassable |-> TRUE]
       [] t = "vol"   -> [movementCost |-> 99, defenseBonus |-> 10, foodProduction |-> 0,
                          isPassable |-> FALSE, isNavalPassable |-> FALSE]
       [] t = "lava"  -> [movementCost |-> 99, defenseBonus |-> 5, foodProduction |-> 0,
                          isPassable |-> FALSE, isNavalPassable |-> FALSE]]

\* ROAD_MODIFIERS.movementCostOverride
RoadMovementCost == 1
\* getMovementCost's answer for a terrain without definition
UnknownTerrainCost == 99
\* the default of findPath's maxMovement parameter (Infinity): larger than the
\* cost of any walk on a grid of the model
Infinity == 999

\* ------------------------------------------------------------------------
\* engine/map/MapEngine.ts : TileGrid
\* ------------------------------------------------------------------------

\* a coordinate that holds no tile (Map.get returns undefined)
NoTile == [terrain |-> "none", river |-> FALSE, road |-> FALSE, ownerId |-> "none"]

MkTile(terrain, river, road, ownerId) ==
  [terrain |-> terrain, river |-> river, road |-> road, ownerId |-> ownerId]

\* A grid is a record [width, height, tiles]; tiles maps every in-bounds
\* coordinate to its tile or to NoTile.
Cells(w, h) == (0 .. (w - 1)) \X (0 .. (h - 1))

isInBounds(g, x, y) == x >= 0 /\ x < g.width /\ y >= 0 /\ y < g.height

getTile(g, x, y) ==
  IF <<x, y>> \in DOMAIN g.tiles THEN g.tiles[<<x, y>>] ELSE NoTile

setTile(g, x, y, tile) ==
  [g EXCEPT !.tiles = [c \in DOMAIN g.tiles |-> IF c = <<x, y>> THEN tile ELSE g.tiles[c]]]

\* the scan order of getNeighbors: N, S, W, E, then the diagonals
Dirs == << <<0, -1>>, <<0, 1>>, <<-1, 0>>, <<1, 0>>,
           <<-1, -1>>, <<1, -1>>, <<-1, 1>>, <<1, 1>> >>

\* coordinates of the in-bounds, present neighbours, in scan order
getNeighbors(g, x, y) ==
  LET cand == [i \in 1 .. Len(Dirs) |-> <<x + Dirs[i][1], y + Dirs[i][2]>>]
  IN SelectSeq(cand, LAMBDA c : isInBounds(g, c[1], c[2]) /\ getTile(g, c[1], c[2]) # NoTile)

getMovementCost(tile) ==
  IF tile.terrain \notin TerrainKinds THEN UnknownTerrainCost
  ELSE IF tile.road THEN RoadMovementCost
  ELSE TERRAIN_DEFS[tile.terrain].movementCost

\* the passability test shared by findPath and getReachableTiles
PassableFor(tile, isNaval) ==
  /\ tile.terrain \in TerrainKinds
  /\ IF isNaval THEN TERRAIN_DEFS[tile.terrain].isNavalPassable
               ELSE TERRAIN_DEFS[tile.terrain].isPassable

\* ------------------------------------------------------------------------
\* engine/map/MapEngine.ts : findPath (A*)
\* ------------------------------------------------------------------------

\* mutant: a heuristic that overestimates (three times the Chebyshev distance)
heuristicInflated(x, y, endX, endY) == 3 * Max2(Abs(x - endX), Abs(y - endY))

heuristic(x, y, endX, endY) == Max2(Abs(x - endX), Abs(y - endY))

\* The open set is a JavaScript Map: a sequence of nodes in insertion order.
\* A node carries the path from the start to itself in place of the parent
\* pointer chain.
OpenIndex(open, pos) ==
  IF \E i \in 1 .. Len(open) : open[i].pos = pos
  THEN CHOOSE i \in 1 .. Len(open) : open[i].pos = pos
  ELSE 0

\* openSet.set(key, node): an existing key keeps its place, a new one is appended
OpenSetPut(open, node) ==
  LET i == OpenIndex(open, node.pos)
  IN IF i = 0 THEN Append(open, node) ELSE [open EXCEPT ![i] = node]

\* mutant: the open set is served first in, first out, whatever f is
LowestFFirstInserted(open) == 1

\* the scan "if (!current || node.f < current.f) current = node": the first
\* node, in insertion order, among those of lowest f
LowestF(open) ==
  CHOOSE i \in 1 .. Len(open) :
    /\ \A j \in 1 .. Len(open) : open[i].f <= open[j].f
    /\ \A j \in 1 .. (i - 1) : open[j].f > open[i].f

OpenSetDelete(open, i) ==
  [j \in 1 .. (Len(open) - 1) |-> IF j < i THEN open[j] ELSE open[j + 1]]

\* mutant: the check "tentativeG > maxMovement" is missing
AStarVisitNoBudget(g, open, closed, current, nb, endX, endY, isNaval, maxMovement) ==
  LET tile == getTile(g, nb[1], nb[2])
      tentativeG == current.g + getMovementCost(tile)
      i == OpenIndex(open, nb)
      h == Max2(Abs(nb[1] - endX), Abs(nb[2] - endY))
  IN IF nb \in closed THEN open
     ELSE IF ~PassableFor(tile, isNaval) THEN open
     ELSE IF i # 0 /\ tentativeG >= open[i].g THEN open
     ELSE OpenSetPut(open, [pos |-> nb, g |-> tentativeG, h |-> h, f |-> tentativeG + h,
                            path |-> Append(current.path, nb)])

\* mutant: the passability check is missing
AStarVisitNoPassability(g, open, closed, current, nb, endX, endY, isNaval, maxMovement) ==
  LET tile == getTile(g, nb[1], nb[2])
      tentativeG == current.g + getMovementCost(tile)
      i == OpenIndex(open, nb)
      h == Max2(Abs(nb[1] - endX), Abs(nb[2] - endY))
  IN IF nb \in closed THEN open
     ELSE IF tentativeG > maxMovement THEN open
     ELSE IF i # 0 /\ tentativeG >= open[i].g THEN open
     ELSE OpenSetPut(open, [pos |-> nb, g |-> tentativeG, h |-> h, f |-> tentativeG + h,
                            path |-> Append(current.path, nb)])

\* the body of the loop over the neighbours of the expanded node
AStarVisit(g, open, closed, current, nb, endX, endY, isNaval, maxMovement) ==
  LET tile == getTile(g, nb[1], nb[2])
      tentativeG == current.g + getMovementCost(tile)
      i == OpenIndex(open, nb)
      h == heuristic(nb[1], nb[2], endX, endY)
  IN IF nb \in closed THEN open
     ELSE IF ~PassableFor(tile, isNaval) THEN open
     ELSE IF tentativeG > maxMovement THEN open
     ELSE IF i # 0 /\ tentativeG >= open[i].g THEN open
     ELSE OpenSetPut(open, [pos |-> nb, g |-> tentativeG, h |-> h, f |-> tentativeG + h,
                            path |-> Append(current.path, nb)])

RECURSIVE AStarNeighbors(_, _, _, _, _, _, _, _, _, _)
AStarNeighbors(g, open, closed, current, nbs, k, endX, endY, isNaval, maxMovement) ==
  IF k > Len(nbs) THEN open
  ELSE AStarNeighbors(g,
         AStarVisit(g, open, closed, current, nbs[k], endX, endY, isNaval, maxMovement),
         closed, current, nbs, k + 1, endX, endY, isNaval, maxMovement)

RECURSIVE AStarLoop(_, _, _, _, _, _, _)
AStarLoop(g, open, closed, endX, endY, isNaval, maxMovement) ==
  IF Len(open) = 0 THEN [path |-> <<>>, totalCost |-> 0, reachable |-> FALSE]
  ELSE LET i == LowestF(open)
           current == open[i]
       IN IF current.pos = <<endX, endY>>
          THEN [path |-> current.path, totalCost |-> current.g, reachable |-> TRUE]
          ELSE AStarLoop(g,
                 AStarNeighbors(g, OpenSetDelete(open, i), closed \cup {current.pos}, current,
                                getNeighbors(g, current.pos[1], current.pos[2]), 1,
                                endX, endY, isNaval, maxMovement),
                 closed \cup {current.pos}, endX, endY, isNaval, maxMovement)

findPath(g, startX, startY, endX, endY, isNaval, maxMovement) ==
  LET h0 == heuristic(startX, startY, endX, endY)
      startNode == [pos |-> <<startX, startY>>, g |-> 0, h |-> h0, f |-> h0,
                    path |-> << <<startX, startY>> >>]
  IN AStarLoop(g, <<startNode>>, {}, endX, endY, isNaval, maxMovement)

\* ------------------------------------------------------------------------
\* engine/map/MapEngine.ts : getReachableTiles
\* ------------------------------------------------------------------------

\* queue.sort((a, b) => a.cost - b.cost): a stable sort by cost
RECURSIVE SortInsert(_, _)
SortInsert(sorted, item) ==
  IF Len(sorted) = 0 THEN <<item>>
  ELSE IF sorted[Len(sorted)].cost <= item.cost THEN Append(sorted, item)
  ELSE Append(SortInsert(SubSeq(sorted, 1, Len(sorted) - 1), item), sorted[Len(sorted)])

RECURSIVE SortByCost(_)
SortByCost(queue) ==
  IF Len(queue) = 0 THEN <<>>
  ELSE SortInsert(SortByCost(SubSeq(queue, 1, Len(queue) - 1)), queue[Len(queue)])

\* reachable.set(key, cost)
MapSet(m, key, value) ==
  [k \in DOMAIN m \cup {key} |-> IF k = key THEN value ELSE m[k]]

\* mutant: the check "totalCost > maxMovement" is missing
ReachVisitNoBudget(g, st, current, nb, maxMovement, isNaval) ==
  LET tile == getTile(g, nb[1], nb[2])
      totalCost == current.cost + getMovementCost(tile)
  IN IF ~PassableFor(tile, isNaval) THEN st
     ELSE IF nb \notin DOMAIN st.reachable \/ totalCost < st.reachable[nb]
          THEN [reachable |-> MapSet(st.reachable, nb, totalCost),
                queue |-> Append(st.queue, [pos |-> nb, cost |-> totalCost])]
          ELSE st

\* the body of the loop over the neighbours; st = [reachable, queue]
ReachVisit(g, st, current, nb, maxMovement, isNaval) ==
  LET tile == getTile(g, nb[1], nb[2])
      totalCost == current.cost + getMovementCost(tile)
  IN IF ~PassableFor(tile, isNaval) THEN st
     ELSE IF totalCost > maxMovement THEN st
     ELSE IF nb \notin DOMAIN st.reachable \/ totalCost < st.reachable[nb]
          THEN [reachable |-> MapSet(st.reachable, nb, totalCost),
                queue |-> Append(st.queue, [pos |-> nb, cost |-> totalCost])]
          ELSE st

RECURSIVE ReachNeighbors(_, _, _, _, _, _, _)
ReachNeighbors(g, st, current, nbs, k, maxMovement, isNaval) ==
  IF k > Len(nbs) THEN st
  ELSE ReachNeighbors(g, ReachVisit(g, st, current, nbs[k], maxMovement, isNaval),
                      current, nbs, k + 1, maxMovement, isNaval)

RECURSIVE ReachLoop(_, _, _, _)
ReachLoop(g, st, maxMovement, isNaval) ==
  IF Len(st.queue) = 0 THEN st.reachable
  ELSE LET sorted == SortByCost(st.queue)
           current == Head(sorted)
       IN ReachLoop(g,
            ReachNeighbors(g, [reachable |-> st.reachable, queue |-> Tail(sorted)], current,
                           getNeighbors(g, current.pos[1], current.pos[2]), 1,
                           maxMovement, isNaval),
            maxMovement, isNaval)

getReachableTiles(g, startX, startY, maxMovement, isNaval) ==
  ReachLoop(g, [reachable |-> (<<startX, startY>> :> 0),
                queue |-> << [pos |-> <<startX, startY>>, cost |-> 0] >>],
            maxMovement, isNaval)

\* ------------------------------------------------------------------------
\* models/units.ts : unit reference data (a representative subset of the unit
\* types: a reproducing civil unit, melee and ranged military units, a siege
\* engine and a special unit without attack)
\* ------------------------------------------------------------------------

UnitTypeIds == {"peasant", "militia", "archer", "knight", "catapult", "boat", "merchant"}

\* reproductionChance is in hundredths (0.15 -> 15); upkeep lists the entries
\* of the upkeep ResourceMap in the order of the source
UNIT_TYPES ==
  [t \in UnitTypeIds |->
     CASE t = "peasant"  -> [category |-> "civil",
                             hp |-> 10, attack |-> 1, defense |-> 1, movement |-> 2, range |-> 1,
                             cost |-> << <<"dricks", 10>>, <<"grain", 5>> >>,
                             upkeep |-> << <<"grain", 1>> >>,
                             canReproduce |-> TRUE, reproductionChance |-> 15,
                             requiredBuilding |-> ""]
       [] t = "militia"  -> [category |-> "military",
                             hp |-> 15, attack |-> 3, defense |-> 3, movement |-> 3, range |-> 1,
                             cost |-> << <<"dricks", 20>>, <<"grain", 5>> >>,
                             upkeep |-> << <<"grain", 1>>, <<"dricks", 1>> >>,
                             canReproduce |-> FALSE, reproductionChance |-> 0,
                             requiredBuilding |-> "barracks"]
       [] t = "archer"   -> [category |-> "military",
                             hp |-> 15, attack |-> 5, defense |-> 2, movement |-> 3, range |-> 2,
                             cost |-> << <<"dricks", 35>>, <<"wood", 5>>, <<"grain", 5>> >>,
                             upkeep |-> << <<"grain", 1>>, <<"dricks", 2>> >>,
                             canReproduce |-> FALSE, reproductionChance |-> 0,
                             requiredBuilding |-> "barracks"]
       [] t = "knight"   -> [category |-> "military",
                             hp |-> 35, attack |-> 10, defense |-> 8, movement |-> 4, range |-> 1,
                             cost |-> << <<"dricks", 100>>, <<"weapons", 2>>, <<"leather", 3>>,
                                         <<"iron", 3>> >>,
                             upkeep |-> << <<"grain", 3>>, <<"dricks", 5>> >>,
                             canReproduce |-> FALSE, reproductionChance |-> 0,
                             requiredBuilding |-> "stable"]
       [] t = "catapult" -> [category |-> "siege",
                             hp |-> 20, attack |-> 12, defense |-> 1, movement |-> 1, range |-> 3,
                             cost |-> << <<"dricks", 80>>, <<"wood", 20>>, <<"iron", 5>> >>,
                             upkeep |-> << <<"dricks", 4>> >>,
                             canReproduce |-> FALSE, reproductionChance |-> 0,
                             requiredBuilding |-> "barracks"]
       [] t = "boat"     -> [category |-> "naval",
                             hp |-> 15, attack |-> 2, defense |-> 2, movement |-> 4, range |-> 1,
                             cost |-> << <<"dricks", 30>>, <<"wood", 10>> >>,
                             upkeep |-> << <<"dricks", 1>> >>,
                             canReproduce |-> FALSE, reproductionChance |-> 0,
                             requiredBuilding |-> "port"]
       [] t = "merchant" -> [category |-> "special",
                             hp |-> 10, attack |-> 0, defense |-> 1, movement |-> 3, range |-> 1,
                             cost |-> << <<"dricks", 40>> >>,
                             upkeep |-> << <<"dricks", 2>> >>,
                             canReproduce |-> FALSE, reproductionChance |-> 0,
                             requiredBuilding |-> "market"]]

\* a UnitInstance.  Identifiers are tuples: <<"uuid", n>> for a unit made by
\* createUnit, <<typeId, timestamp, suffix>> for one born by reproduction
MkUnit(id, typeId, ownerId, x, y, currentHp, isAlive, hasMoved, hasActed, createdTurn) ==
  [id |-> id, typeId |-> typeId, ownerId |-> ownerId, x |-> x, y |-> y,
   currentHp |-> currentHp, isAlive |-> isAlive, hasMoved |-> hasMoved, hasActed |-> hasActed,
   createdTurn |-> createdTurn]

\* ------------------------------------------------------------------------
\* engine/combat : SimpleCombatResolver and CombatManager
\*
\* A value of Math.random() is a number of hundredths r in 0..99.  The random
\* factor 0.8 + r * 0.4 is kept in ten-thousandths.
\* ------------------------------------------------------------------------

\* const random = () => 0.8 + Math.random() * 0.4
randomFactor(r) == 8000 + 40 * r

\* defenderTerrainDef?.defenseBonus ?? 1.0, in tenths
terrainDefenseBonus(tile) ==
  IF tile.terrain \in DOMAIN TERRAIN_DEFS THEN TERRAIN_DEFS[tile.terrain].defenseBonus ELSE 10

\* Math.max(1, Math.round(attack * random() * riverPenalty - defense * bonus * 0.5))
\* over the denominator 200000; Math.round(v) is floor(v + 1/2)
damageToDefenderUnclamped(attack, defense, bonus, river, r) ==
  (attack * randomFactor(r) * (IF river THEN 9 ELSE 10) * 2 - defense * bonus * 10000 + 100000)
     \div 200000

damageToDefender(attack, defense, bonus, river, r) ==
  Max2(1, (attack * randomFactor(r) * (IF river THEN 9 ELSE 10) * 2
             - defense * bonus * 10000 + 100000) \div 200000)

\* Math.max(0, Math.round(attack * random() * 0.7 - defense * bonus * 0.5)) over
\* the denominator 100000
damageToAttacker(attack, defense, bonus, r) ==
  Max2(0, (attack * randomFactor(r) * 7 - defense * bonus * 5000 + 50000) \div 100000)

\* SimpleCombatResolver.getDistance
getDistance(a, b) == Max2(Abs(a.x - b.x), Abs(a.y - b.y))

\* a Tile as the resolver receives it: the tile stored at (x, y) with its
\* coordinates
TileAt(tile, x, y) == [x |-> x, y |-> y, terrain |-> tile.terrain, river |-> tile.river]

\* SimpleCombatResolver.resolve for two units of known types; r1 and r2 are
\* the values of the two Math.random() calls (the second one is made only when
\* the defender is in range).  The log's uuid and timestamp are left out.
resolve(attacker, defender, attackerTile, defenderTile, turn, r1, r2) ==
  LET attackerType == UNIT_TYPES[attacker.typeId]
      defenderType == UNIT_TYPES[defender.typeId]
      dmgDefender == damageToDefender(attackerType.attack, defenderType.defense,
                                      terrainDefenseBonus(defenderTile), defenderTile.river, r1)
      isInRange == getDistance(attackerTile, defenderTile) <= defenderType.range
      dmgAttacker == IF isInRange
                       THEN damageToAttacker(defenderType.attack, attackerType.defense,
                                             terrainDefenseBonus(attackerTile), r2)
                       ELSE 0
      newDefenderHp == defender.currentHp - dmgDefender
      newAttackerHp == attacker.currentHp - dmgAttacker
  IN [attackerDamage |-> dmgAttacker,
      defenderDamage |-> dmgDefender,
      attackerSurvived |-> newAttackerHp > 0,
      defenderSurvived |-> newDefenderHp > 0,
      log |-> [turn |-> turn,
               attackerId |-> attacker.ownerId, defenderId |-> defender.ownerId,
               attackerUnitId |-> attacker.id, defenderUnitId |-> defender.id,
               attackerDamage |-> dmgAttacker, defenderDamage |-> dmgDefender,
               attackerSurvived |-> newAttackerHp > 0,
               defenderSurvived |-> newDefenderHp > 0,
               terrainBonus |-> terrainDefenseBonus(defenderTile)]]

\* CombatManager.executeCombat, with the default resolver
executeCombat(attacker, defender, attackerTile, defenderTile, turn, r1, r2) ==
  resolve(attacker, defender, attackerTile, defenderTile, turn, r1, r2)

\* CombatManager.applyCombatResult, for one of the two units: damage is the
\* damage it takes and survived its flag of the result
applyDamageNoClamp(unit, damage, survived) ==
  IF survived THEN [unit EXCEPT !.currentHp = unit.currentHp - damage]
  ELSE [unit EXCEPT !.currentHp = unit.currentHp - damage, !.isAlive = FALSE]

applyDamage(unit, damage, survived) ==
  IF survived THEN [unit EXCEPT !.currentHp = unit.currentHp - damage]
  ELSE [unit EXCEPT !.currentHp = 0, !.isAlive = FALSE]

\* CombatManager.applyCombatResult: the attacker and the defender after the
\* encounter
applyCombatResult(attacker, defender, result) ==
  [attacker |-> applyDamage(attacker, result.attackerDamage, result.attackerSurvived),
   defender |-> applyDamage(defender, result.defenderDamage, result.defenderSurvived)]

\* ------------------------------------------------------------------------
\* models/resources.ts, models/buildings.ts, models/game.ts : reference data
\* of the economy (the resources, building types and factions the model uses)
\* ------------------------------------------------------------------------

ResourceKinds == {"dricks", "grain", "fruit"}

\* emptyResources()
emptyResources == [k \in ResourceKinds |-> 0]

BuildingTypeIds == {"house", "farm_building", "barracks", "watchtower"}

\* production lists the entries of the production ResourceMap in source order
BUILDING_TYPES ==
  [t \in BuildingTypeIds |->
     CASE t = "house"         -> [name |-> "Maison", production |-> << <<"dricks", 2>> >>]
       [] t = "farm_building" -> [name |-> "Ferme",
                                  production |-> << <<"grain", 5>>, <<"fruit", 2>> >>]
       [] t = "barracks"      -> [name |-> "Caserne", production |-> << >>]
       [] t = "watchtower"    -> [name |-> "Tour de Guet", production |-> << >>]]

FactionIds == {"alrimor", "bansag", "caragern", "yanovie"}

\* value is in hundredths; dricks and nourriture tell whether the bonus's
\* description includes 'Dricks' and 'nourriture'
FACTIONS ==
  [f \in FactionIds |->
     CASE f = "alrimor"  -> [bonuses |-> << [type |-> "military", value |-> 10,
                                             dricks |-> FALSE, nourriture |-> FALSE] >>]
       [] f = "bansag"   -> [bonuses |-> << [type |-> "economic", value |-> 20,
                                             dricks |-> TRUE, nourriture |-> FALSE] >>]
       [] f = "caragern" -> [bonuses |-> << [type |-> "economic", value |-> 25,
                                             dricks |-> FALSE, nourriture |-> FALSE] >>]
       [] f = "yanovie"  -> [bonuses |-> << [type |-> "economic", value |-> 30,
                                             dricks |-> FALSE, nourriture |-> TRUE] >>]]

SettlementTiers == {"campfire", "village", "town", "city", "capital"}

\* the tierIncome table of simulate
tierIncome ==
  [t \in SettlementTiers |->
     CASE t = "campfire" -> 2 [] t = "village" -> 10 [] t = "town" -> 25
       [] t = "city" -> 50 [] t = "capital" -> 100]

\* ------------------------------------------------------------------------
\* engine/economy : EconomyEngine
\* ------------------------------------------------------------------------

\* the concatenation of the sequences seqs[k], seqs[k+1], ...
RECURSIVE ConcatFrom(_, _)
ConcatFrom(seqs, k) ==
  IF k > Len(seqs) THEN << >> ELSE seqs[k] \o ConcatFrom(seqs, k + 1)

\* the sum of the amounts of the report entries of one resource
RECURSIVE SumAmountFrom(_, _, _)
SumAmountFrom(entries, res, k) ==
  IF k > Len(entries) THEN 0
  ELSE (IF entries[k].resource = res THEN entries[k].amount ELSE 0)
         + SumAmountFrom(entries, res, k + 1)

\* a ProductionReportEntry
MkEntry(sourceId, resource, amount, isMalus) ==
  [sourceId |-> sourceId, resource |-> resource, amount |-> amount, isMalus |-> isMalus]

\* TileGrid.getPlayerTiles: the tiles owned by the player with their
\* coordinates, listed row by row
getPlayerTiles(g, playerId) ==
  LET order == [k \in 1..(g.width * g.height) |->
                  <<(k - 1) % g.width, (k - 1) \div g.width>>]
      owned == SelectSeq(order, LAMBDA c : getTile(g, c[1], c[2]) # NoTile
                                            /\ getTile(g, c[1], c[2]).ownerId = playerId)
  IN [k \in 1..Len(owned) |->
        [x |-> owned[k][1], y |-> owned[k][2],
         terrain |-> getTile(g, owned[k][1], owned[k][2]).terrain]]

\* simulate, step 1: the gains of one building
BuildingGains(building) ==
  IF ~building.isConstructed \/ building.typeId \notin DOMAIN BUILDING_TYPES THEN << >>
  ELSE LET prod == SelectSeq(BUILDING_TYPES[building.typeId].production,
                             LAMBDA e : e[2] > 0)
       IN [k \in 1..Len(prod) |-> MkEntry(building.id, prod[k][1], prod[k][2], FALSE)]

\* simulate, step 2: the gains of the owned tiles
TerrainGains(playerTiles) ==
  LET fertile == SelectSeq(playerTiles, LAMBDA t : t.terrain \in DOMAIN TERRAIN_DEFS
                                         /\ TERRAIN_DEFS[t.terrain].foodProduction > 0)
  IN [k \in 1..Len(fertile) |->
        MkEntry(<<"tile", fertile[k].x, fertile[k].y>>, "grain",
                TERRAIN_DEFS[fertile[k].terrain].foodProduction, FALSE)]

\* simulate, step 3: the upkeep of one living unit
UpkeepLosses(unit) ==
  IF ~unit.isAlive \/ unit.typeId \notin DOMAIN UNIT_TYPES THEN << >>
  ELSE LET up == SelectSeq(UNIT_TYPES[unit.typeId].upkeep, LAMBDA e : e[2] > 0)
       IN [k \in 1..Len(up) |-> MkEntry(unit.id, up[k][1], up[k][2], TRUE)]

\* simulate, step 4: the reproduction entry of one living unit
ReproductionGains(unit) ==
  IF unit.isAlive /\ unit.typeId \in DOMAIN UNIT_TYPES
     /\ UNIT_TYPES[unit.typeId].canReproduce /\ UNIT_TYPES[unit.typeId].reproductionChance > 0
  THEN << MkEntry(unit.id, "population", UNIT_TYPES[unit.typeId].reproductionChance, FALSE) >>
  ELSE << >>

\* simulate, step 5: settlements.reduce(sum + (tierIncome[s.tier] || 0))
RECURSIVE SettlementDricksFrom(_, _)
SettlementDricksFrom(settlements, k) ==
  IF k > Len(settlements) THEN 0
  ELSE (IF settlements[k].tier \in DOMAIN tierIncome THEN tierIncome[settlements[k].tier] ELSE 0)
         + SettlementDricksFrom(settlements, k + 1)

\* Math.round(amount * value) for a value in hundredths
RoundPercent(amount, value) == (2 * amount * value + 100) \div 200

\* simulate, step 6: one faction bonus applied to the running [gains, net]
ApplyDricksBonusSigned(bonus, acc) ==
  IF bonus.dricks /\ RoundPercent(acc.net["dricks"], bonus.value) # 0
    THEN [gains |-> Append(acc.gains,
                      MkEntry(<<"faction_bonus">>, "dricks",
                              RoundPercent(acc.net["dricks"], bonus.value), FALSE)),
          net |-> [acc.net EXCEPT !["dricks"] = @ + RoundPercent(@, bonus.value)]]
    ELSE acc

ApplyDricksBonus(bonus, acc) ==
  IF bonus.dricks /\ RoundPercent(acc.net["dricks"], bonus.value) > 0
    THEN [gains |-> Append(acc.gains,
                      MkEntry(<<"faction_bonus">>, "dricks",
                              RoundPercent(acc.net["dricks"], bonus.value), FALSE)),
          net |-> [acc.net EXCEPT !["dricks"] = @ + RoundPercent(@, bonus.value)]]
    ELSE acc

\* the food bonus entered in the gains and left out of the net
ApplyFoodBonusEntryOnly(bonus, acc) ==
  IF bonus.nourriture /\ RoundPercent(acc.net["grain"], bonus.value) > 0
    THEN [gains |-> Append(acc.gains,
                      MkEntry(<<"faction_bonus">>, "grain",
                              RoundPercent(acc.net["grain"], bonus.value), FALSE)),
          net |-> acc.net]
    ELSE acc

ApplyFoodBonus(bonus, acc) ==
  IF bonus.nourriture /\ RoundPercent(acc.net["grain"], bonus.value) > 0
    THEN [gains |-> Append(acc.gains,
                      MkEntry(<<"faction_bonus">>, "grain",
                              RoundPercent(acc.net["grain"], bonus.value), FALSE)),
          net |-> [acc.net EXCEPT !["grain"] = @ + RoundPercent(@, bonus.value)]]
    ELSE acc

RECURSIVE FactionBonusesFrom(_, _, _)
FactionBonusesFrom(bonuses, k, acc) ==
  IF k > Len(bonuses) THEN acc
  ELSE IF bonuses[k].type # "economic" THEN FactionBonusesFrom(bonuses, k + 1, acc)
  ELSE FactionBonusesFrom(bonuses, k + 1,
                          ApplyFoodBonus(bonuses[k], ApplyDricksBonus(bonuses[k], acc)))

\* simulate, step 7: the warnings of a net
WarningsNonPositive(net) ==
  (IF net["grain"] <= 0 THEN << <<"grain", Abs(net["grain"])>> >> ELSE << >>)
  \o (IF net["dricks"] <= 0 THEN << <<"dricks", Abs(net["dricks"])>> >> ELSE << >>)

Warnings(net) ==
  (IF net["grain"] < 0 THEN << <<"grain", Abs(net["grain"])>> >> ELSE << >>)
  \o (IF net["dricks"] < 0 THEN << <<"dricks", Abs(net["dricks"])>> >> ELSE << >>)

\* simulate, the returned report: final is [gains, net] after step 6
Report(player, turn, losses, final) ==
  [playerId |-> player.id, turn |-> turn, gains |-> final.gains, losses |-> losses,
   netResources |-> final.net, warnings |-> Warnings(final.net)]

\* simulate, steps 6 and 7 on the gains and losses of steps 1 to 5
ReportOf(player, turn, gains, losses) ==
  Report(player, turn, losses,
         FactionBonusesFrom(IF player.factionId \in DOMAIN FACTIONS
                              THEN FACTIONS[player.factionId].bonuses ELSE << >>,
                            1,
                            [gains |-> gains,
                             net |-> [k \in ResourceKinds |->
                                        SumAmountFrom(gains, k, 1)
                                          - SumAmountFrom(losses, k, 1)]]))

\* simulate, step 5: the tax entry
TaxGains(settlementDricks) ==
  IF settlementDricks > 0 THEN << MkEntry(<<"tax">>, "dricks", settlementDricks, FALSE) >>
  ELSE << >>

\* EconomyEngine.simulate: the ProductionReport of one player
simulate(player, units, buildings, settlements, playerTiles, turn) ==
  ReportOf(player, turn,
           ConcatFrom([k \in 1..Len(buildings) |-> BuildingGains(buildings[k])], 1)
             \o TerrainGains(playerTiles)
             \o ConcatFrom([k \in 1..Len(units) |-> ReproductionGains(units[k])], 1)
             \o TaxGains(SettlementDricksFrom(settlements, 1)),
           ConcatFrom([k \in 1..Len(units) |-> UpkeepLosses(units[k])], 1))

\* EconomyEngine.executeProduction: the player's pool plus the net, no
\* resource below 0
executeProductionNoCap(player, report) ==
  [newResources |-> [k \in ResourceKinds |-> player.resources[k] + report.netResources[k]],
   desertedUnits |-> << >>]

executeProduction(player, report) ==
  [newResources |-> [k \in ResourceKinds |->
                       Max2(0, player.resources[k] + report.netResources[k])],
   desertedUnits |-> << >>]

\* EconomyEngine.processReproduction: rolls[k] = <<r1, r2>> holds the values
\* of the two Math.random() calls made for units[k] (the reproduction roll and
\* the suffix of the new identifier), now the value of Date.now()
RECURSIVE processReproductionFromTheDead(_, _, _, _, _)
processReproductionFromTheDead(units, turn, now, rolls, k) ==
  IF k > Len(units) THEN << >>
  ELSE LET unit == units[k]
           born == unit.typeId \in DOMAIN UNIT_TYPES
                   /\ UNIT_TYPES[unit.typeId].canReproduce
                   /\ rolls[k][1] < UNIT_TYPES[unit.typeId].reproductionChance
       IN (IF born
             THEN << MkUnit(<<unit.typeId, now, rolls[k][2]>>, unit.typeId, unit.ownerId,
                            unit.x, unit.y, UNIT_TYPES[unit.typeId].hp, TRUE, TRUE, TRUE, turn) >>
             ELSE << >>)
          \o processReproductionFromTheDead(units, turn, now, rolls, k + 1)

RECURSIVE processReproductionFrom(_, _, _, _, _)
processReproductionFrom(units, turn, now, rolls, k) ==
  IF k > Len(units) THEN << >>
  ELSE LET unit == units[k]
           born == unit.isAlive /\ unit.typeId \in DOMAIN UNIT_TYPES
                   /\ UNIT_TYPES[unit.typeId].canReproduce
                   /\ rolls[k][1] < UNIT_TYPES[unit.typeId].reproductionChance
       IN (IF born
             THEN << MkUnit(<<unit.typeId, now, rolls[k][2]>>, unit.typeId, unit.ownerId,
                            unit.x, unit.y, UNIT_TYPES[unit.typeId].hp, TRUE, TRUE, TRUE, turn) >>
             ELSE << >>)
          \o processReproductionFrom(units, turn, now, rolls, k + 1)

processReproduction(units, turn, now, rolls) ==
  processReproductionFrom(units, turn, now, rolls, 1)

\* ------------------------------------------------------------------------
\* engine/units/UnitManager.ts : the operations the turn engine calls
\* ------------------------------------------------------------------------

\* UnitManager.moveUnit
moveUnit(unit, targetX, targetY) ==
  [unit EXCEPT !.x = targetX, !.y = targetY, !.hasMoved = TRUE]

\* UnitManager.resetUnitsForTurn
resetUnitsForTurnDeadToo(units) ==
  [k \in 1..Len(units) |-> [units[k] EXCEPT !.hasMoved = FALSE, !.hasActed = FALSE]]

resetUnitsForTurn(units) ==
  [k \in 1..Len(units) |->
     IF units[k].isAlive THEN [units[k] EXCEPT !.hasMoved = FALSE, !.hasActed = FALSE]
     ELSE units[k]]

\* ------------------------------------------------------------------------
\* engine/turns/TurnEngine.ts : TurnEngine
\*
\* A TurnAction is [type, playerId] with the fields of its data: unitId,
\* targetX, targetY for a move; buildingTypeId, x, y, sacrificeUnitId for a
\* build.  The arrays of resolveTurn's result are sequences and the objects it
\* mutates in place are named by their index.  Each phase maps the result
\* under construction to the result after the phase.
\* ------------------------------------------------------------------------

\* an absent sacrificeUnitId
NoId == << >>

\* Array.prototype.find: the index of the first element passing the test, 0
\* when there is none
FirstIndex(seq, Test(_)) ==
  IF \E i \in 1..Len(seq) : Test(seq[i])
    THEN CHOOSE i \in 1..Len(seq) : Test(seq[i]) /\ \A j \in 1..(i - 1) : ~Test(seq[j])
    ELSE 0

\* TurnEngine.getRelation
getRelation(playerA, playerB, relations) ==
  LET i == FirstIndex(relations,
                      LAMBDA r : \/ r.playerA = playerA /\ r.playerB = playerB
                                 \/ r.playerA = playerB /\ r.playerB = playerA)
  IN IF i = 0 THEN "neutral" ELSE relations[i].status

\* const result: TurnResolutionResult = { ... }, with the reports simulate
\* computes in phase 6 recorded besides its fields
InitialResult(players, units, buildings, settlements) ==
  [combatLogs |-> << >>, newUnits |-> << >>, updatedUnits |-> units,
   updatedPlayers |-> players, updatedBuildings |-> buildings,
   updatedSettlements |-> settlements, messages |-> << >>, reports |-> << >>]

\* phase 1, one move action applied to the unit of index i (0: no such unit)
MoveFound(units, action, i) ==
  IF i # 0 /\ units[i].ownerId = action.playerId
    THEN [units EXCEPT ![i] = moveUnit(@, action.targetX, action.targetY)]
    ELSE units

\* phase 1: the move actions from the k-th on
RECURSIVE MovementFromUntilInvalid(_, _, _)
MovementFromUntilInvalid(units, moveActions, k) ==
  IF k > Len(moveActions) THEN units
  ELSE IF MoveFound(units, moveActions[k],
                    FirstIndex(units, LAMBDA u : u.id = moveActions[k].unitId /\ u.isAlive))
            = units
         THEN units
  ELSE MovementFromUntilInvalid(
         MoveFound(units, moveActions[k],
                   FirstIndex(units, LAMBDA u : u.id = moveActions[k].unitId /\ u.isAlive)),
         moveActions, k + 1)

RECURSIVE MovementFrom(_, _, _)
MovementFrom(units, moveActions, k) ==
  IF k > Len(moveActions) THEN units
  ELSE MovementFrom(MoveFound(units, moveActions[k],
                              FirstIndex(units, LAMBDA u : u.id = moveActions[k].unitId
                                                          /\ u.isAlive)),
                    moveActions, k + 1)

MovementPhase(result, actions) ==
  [result EXCEPT !.updatedUnits =
     MovementFrom(@, SelectSeq(actions, LAMBDA a : a.type = "move"), 1)]

\* findCombatPairs, the test of the inner loop on the pair of indexes c; acc
\* is [pairs, processed]
CombatPairFoundBothWays(units, relations, c, acc) ==
  /\ units[c[1]].id # units[c[2]].id
  /\ units[c[1]].ownerId # units[c[2]].ownerId
  /\ Max2(Abs(units[c[1]].x - units[c[2]].x), Abs(units[c[1]].y - units[c[2]].y)) <= 1
  /\ getRelation(units[c[1]].ownerId, units[c[2]].ownerId, relations) = "enemy"

CombatPairFound(units, relations, c, acc) ==
  /\ units[c[1]].id # units[c[2]].id
  /\ units[c[1]].ownerId # units[c[2]].ownerId
  /\ {units[c[1]].id, units[c[2]].id} \notin acc.processed
  /\ Max2(Abs(units[c[1]].x - units[c[2]].x), Abs(units[c[1]].y - units[c[2]].y)) <= 1
  /\ getRelation(units[c[1]].ownerId, units[c[2]].ownerId, relations) = "enemy"

\* findCombatPairs: the two nested loops over the living units, cand being
\* the pairs of indexes in the order the loops visit them
RECURSIVE CombatPairsFrom(_, _, _, _, _)
CombatPairsFrom(units, relations, cand, k, acc) ==
  IF k > Len(cand) THEN acc.pairs
  ELSE CombatPairsFrom(units, relations, cand, k + 1,
                       IF CombatPairFound(units, relations, cand[k], acc)
                         THEN [pairs |-> Append(acc.pairs, cand[k]),
                               processed |-> acc.processed
                                               \cup {{units[cand[k][1]].id,
                                                      units[cand[k][2]].id}}]
                         ELSE acc)

findCombatPairs(units, relations) ==
  CombatPairsFrom(units, relations,
                  SelectSeq([k \in 1..(Len(units) * Len(units)) |->
                               <<((k - 1) \div Len(units)) + 1, ((k - 1) % Len(units)) + 1>>],
                            LAMBDA c : units[c[1]].isAlive /\ units[c[2]].isAlive),
                  1, [pairs |-> << >>, processed |-> {}])

\* phase 2, the body of the loop after executeCombat: applyCombatResult on
\* the units of indexes i and j, and the log pushed
ApplyEncounter(result, i, j, combatResult) ==
  [result EXCEPT
     !.updatedUnits =
        [@ EXCEPT ![i] = applyCombatResult(result.updatedUnits[i], result.updatedUnits[j],
                                           combatResult).attacker,
                  ![j] = applyCombatResult(result.updatedUnits[i], result.updatedUnits[j],
                                           combatResult).defender],
     !.combatLogs = Append(@, combatResult.log)]

\* phase 2, the body of the loop for the attacker of index i and the defender
\* of index j; roll holds the two values of Math.random()
Encounter(result, i, j, g, turn, roll) ==
  LET attacker == result.updatedUnits[i]
      defender == result.updatedUnits[j]
  IN IF getTile(g, attacker.x, attacker.y) = NoTile \/ getTile(g, defender.x, defender.y) = NoTile
       THEN result
       ELSE ApplyEncounter(result, i, j,
              executeCombat(attacker, defender,
                            TileAt(getTile(g, attacker.x, attacker.y), attacker.x, attacker.y),
                            TileAt(getTile(g, defender.x, defender.y), defender.x, defender.y),
                            turn, roll[1], roll[2]))

\* phase 2: the pairs from the k-th on; rolls[k] is for the k-th pair
RECURSIVE CombatFrom(_, _, _, _, _, _)
CombatFrom(result, pairs, g, turn, rolls, k) ==
  IF k > Len(pairs) THEN result
  ELSE CombatFrom(Encounter(result, pairs[k][1], pairs[k][2], g, turn, rolls[k]),
                  pairs, g, turn, rolls, k + 1)

CombatPhase(result, relations, g, turn, rolls) ==
  CombatFrom(result, findCombatPairs(result.updatedUnits, relations), g, turn, rolls, 1)

\* phase 3, the sacrifice of the unit of index i (0: none)
Sacrifice(units, i) ==
  IF i = 0 THEN units ELSE [units EXCEPT ![i].isAlive = FALSE, ![i].currentHp = 0]

\* phase 3, the body of the loop for one build action; roll is the value of
\* Math.random() in the identifier of the building
Build(result, action, turn, now, roll) ==
  [result EXCEPT
     !.updatedBuildings =
        Append(@, [id |-> <<"bldg", now, roll>>, typeId |-> action.buildingTypeId,
                   ownerId |-> action.playerId, x |-> action.x, y |-> action.y,
                   isConstructed |-> FALSE, turnsRemaining |-> 2, createdTurn |-> turn]),
     !.updatedUnits =
        Sacrifice(@, IF action.sacrificeUnitId = NoId THEN 0
                     ELSE FirstIndex(result.updatedUnits,
                                     LAMBDA u : u.id = action.sacrificeUnitId))]

\* phase 3: the build actions from the k-th on; rolls[k] is for the k-th one
RECURSIVE BuildFrom(_, _, _, _, _, _)
BuildFrom(result, buildActions, turn, now, rolls, k) ==
  IF k > Len(buildActions) THEN result
  ELSE BuildFrom(Build(result, buildActions[k], turn, now, rolls[k]),
                 buildActions, turn, now, rolls, k + 1)

BuildPhase(result, actions, turn, now, rolls) ==
  BuildFrom(result, SelectSeq(actions, LAMBDA a : a.type = "build"), turn, now, rolls, 1)

\* phase 4: whether the tick completes the building, and the building after it
completesConstruction(building) ==
  ~building.isConstructed /\ building.turnsRemaining > 0 /\ building.turnsRemaining - 1 <= 0

advanceConstructionUnguarded(building) ==
  [building EXCEPT !.turnsRemaining = @ - 1,
                   !.isConstructed = (building.turnsRemaining - 1 <= 0)]

advanceConstruction(building) ==
  IF ~building.isConstructed /\ building.turnsRemaining > 0
    THEN [building EXCEPT !.turnsRemaining = @ - 1,
                          !.isConstructed = (building.turnsRemaining - 1 <= 0)]
    ELSE building

ConstructionPhase(result) ==
  [result EXCEPT
     !.updatedBuildings = [k \in 1..Len(@) |-> advanceConstruction(@[k])],
     !.messages = @ \o [k \in 1..Len(SelectSeq(result.updatedBuildings,
                                               completesConstruction)) |-> <<"built">>]]

\* phase 5: whether the tick completes the upgrade, and the settlement after it
completesUpgrade(settlement) ==
  settlement.isUpgrading /\ settlement.upgradeTurnsRemaining > 0
  /\ settlement.upgradeTurnsRemaining - 1 <= 0

advanceUpgrade(settlement) ==
  IF settlement.isUpgrading /\ settlement.upgradeTurnsRemaining > 0
    THEN [settlement EXCEPT !.upgradeTurnsRemaining = @ - 1,
                            !.isUpgrading = ~(settlement.upgradeTurnsRemaining - 1 <= 0)]
    ELSE settlement

UpgradedNames(settlements) ==
  [k \in 1..Len(settlements) |-> <<"upgraded", settlements[k].name>>]

UpgradePhase(result) ==
  [result EXCEPT
     !.updatedSettlements = [k \in 1..Len(@) |-> advanceUpgrade(@[k])],
     !.messages = @ \o UpgradedNames(SelectSeq(result.updatedSettlements, completesUpgrade))]

\* const isMonthlyTurn
isMonthlyTurnFromZero(game) == game.currentTurn % game.turnsPerMonth = 0

isMonthlyTurn(game) == game.currentTurn > 0 /\ game.currentTurn % game.turnsPerMonth = 0

\* the indexes of the units phase 6 hands to the economy engine for a player
PlayerUnitIndexes(units, playerId) ==
  SelectSeq([k \in 1..Len(units) |-> k],
            LAMBDA k : units[k].ownerId = playerId /\ units[k].isAlive)

\* the elements of seq at the indexes idx
At(seq, idx) == [i \in 1..Len(idx) |-> seq[idx[i]]]

WarningMessages(player, warnings) ==
  [i \in 1..Len(warnings) |-> <<"warning", player.name, warnings[i]>>]

\* phase 6, the end of the loop body for the k-th player: the production is
\* executed on the report, the new units and the warnings are pushed
PlayerEconomyApply(result, k, report, newUnits) ==
  [result EXCEPT
     !.updatedPlayers[k].resources =
        executeProduction(result.updatedPlayers[k], report).newResources,
     !.newUnits = @ \o newUnits,
     !.messages = @ \o WarningMessages(result.updatedPlayers[k], report.warnings),
     !.reports = Append(@, report)]

\* phase 6, the loop body for the k-th player and the player's living units
PlayerEconomyOn(result, k, playerUnits, g, turn, now, rolls) ==
  PlayerEconomyApply(result, k,
    simulate(result.updatedPlayers[k], playerUnits,
             SelectSeq(result.updatedBuildings,
                       LAMBDA b : b.ownerId = result.updatedPlayers[k].id),
             SelectSeq(result.updatedSettlements,
                       LAMBDA s : s.ownerId = result.updatedPlayers[k].id),
             getPlayerTiles(g, result.updatedPlayers[k].id), turn),
    processReproduction(playerUnits, turn, now, rolls))

\* phase 6: the players from the k-th on; rolls[i] holds the values of
\* Math.random() for the unit of index i
RECURSIVE EconomyFrom(_, _, _, _, _, _)
EconomyFrom(result, g, turn, now, rolls, k) ==
  IF k > Len(result.updatedPlayers) THEN result
  ELSE EconomyFrom(
         PlayerEconomyOn(result, k,
           At(result.updatedUnits,
              PlayerUnitIndexes(result.updatedUnits, result.updatedPlayers[k].id)),
           g, turn, now,
           At(rolls, PlayerUnitIndexes(result.updatedUnits, result.updatedPlayers[k].id))),
         g, turn, now, rolls, k + 1)

EconomyPhase(result, game, g, now, rolls) ==
  IF isMonthlyTurn(game) THEN EconomyFrom(result, g, game.currentTurn, now, rolls, 1)
  ELSE result

\* phase 7
ResetPhase(result) ==
  [result EXCEPT
     !.updatedUnits = resetUnitsForTurn(@),
     !.updatedPlayers = [k \in 1..Len(@) |-> [@[k] EXCEPT !.turnPlayed = FALSE]]]

\* TurnEngine.resolveTurn.  rnd stands for the hidden inputs of the call:
\* rnd.now is the value of Date.now(), rnd.combat[k] the values of
\* Math.random() for the k-th combat pair, rnd.build[k] for the k-th build
\* action, rnd.repro[i] for the unit of index i.
resolveTurnCombatBeforeMovement(game, players, units, buildings, settlements, actions, g, relations, rnd) ==
  ResetPhase(
   EconomyPhase(
    UpgradePhase(
     ConstructionPhase(
      BuildPhase(
       MovementPhase(
        CombatPhase(InitialResult(players, units, buildings, settlements),
                    relations, g, game.currentTurn, rnd.combat),
        actions),
       actions, game.currentTurn, rnd.now, rnd.build))),
    game, g, rnd.now, rnd.repro))

resolveTurn(game, players, units, buildings, settlements, actions, g, relations, rnd) ==
  ResetPhase(
   EconomyPhase(
    UpgradePhase(
     ConstructionPhase(
      BuildPhase(
       CombatPhase(
        MovementPhase(InitialResult(players, units, buildings, settlements), actions),
        relations, g, game.currentTurn, rnd.combat),
       actions, game.currentTurn, rnd.now, rnd.build))),
    game, g, rnd.now, rnd.repro))

\* ------------------------------------------------------------------------
\* State
\* ------------------------------------------------------------------------

VARIABLES
  grid,       \* the TileGrid: [width, height, tiles]
  pathArgs,   \* arguments of the pathfinder calls: [start, isNaval, maxMovement] of
              \* getReachableTiles, [start, goal, isNaval, pathMax] of findPath
  reachRes,   \* the Map returned by getReachableTiles (coordinate -> cost)
  pathRes,    \* the PathResult returned by findPath
  pstage,     \* "setup" (the grid is being filled), "reached", "found"
  combatIn,   \* arguments of SimpleCombatResolver.resolve: the two units and tiles
  combatOut,  \* the CombatResult it returned and the two units after
              \* applyCombatResult
  game,       \* the Game: [currentTurn, turnsPerMonth]
  players,    \* the Player array: [id, name, factionId, resources, turnPlayed]
  units,      \* the UnitInstance array
  buildings,  \* the BuildingInstance array
  settlements,\* the SettlementInstance array
  relations,  \* the DiplomacyRelation array: [playerA, playerB, status]
  turnIn,     \* the arguments of the last resolveTurn call
  turnOut,    \* the TurnResolutionResult of the last resolveTurn call
  replayOut,  \* the TurnResolutionResult of a second call on the same arguments
  resets,     \* the number of calls of resetUnitsForTurn made on the units
  ecoOut,     \* what the last call of an EconomyEngine method returned
  months,     \* the number of monthly productions applied to the player
  armies,     \* the Army array: [id, ownerId, name, unitIds, x, y]
  made,       \* the number of armies created so far (their ids)
  calls,      \* the number of calls of army and unit moving methods made so far
  mgrOut,     \* what the last call of a manager method returned
  clients,    \* the game store of each player's browser: [pc, game, players, units]
  resolutions \* the resolveTurn calls the stores made: [turn, playerId, newUnits]

pathVars == <<pathArgs, reachRes, pathRes, pstage>>
combatVars == <<combatIn, combatOut>>
turnVars == <<game, players, units, buildings, settlements, relations, turnIn, turnOut,
              replayOut, resets>>
ecoVars == <<ecoOut, months>>
mgrVars == <<armies, made, calls, mgrOut>>
storeVars == <<clients, resolutions>>
vars == <<grid, pathVars, combatVars, turnVars, ecoVars, mgrVars, storeVars>>

\* ------------------------------------------------------------------------
\* Pathfinding specification: a grid is built with setTile, then
\* getReachableTiles and findPath are called on it from the same start
\* ------------------------------------------------------------------------

Grass == MkTile("grass", FALSE, FALSE, "none")

\* new TileGrid(w, h) filled with grassland by setTile, one coordinate
\* ("hole", possibly none) left without tile
FilledGrid(w, h, hole) ==
  [width |-> w, height |-> h,
   tiles |-> [c \in Cells(w, h) |-> IF c = hole THEN NoTile ELSE Grass]]

\* the tiles setTile stores during setup
PathTiles == { MkTile("lifo", FALSE, FALSE, "none"), MkTile("hefo", FALSE, FALSE, "none"),
               MkTile("hefo", FALSE, TRUE, "none"), MkTile("mer", FALSE, FALSE, "none"),
               MkTile("lava", FALSE, FALSE, "none"), Grass }

\* start tiles: a corner, an edge and the centre
Starts == { <<0, 0>>, <<1, 0>>, <<1, 1>> }
\* goals: every cell and one coordinate outside the grid
Goals == Cells(W, H) \cup { <<W, 0>> }
Budgets == { Budget, Infinity }

NoPathArgs == [start |-> <<0, 0>>, isNaval |-> FALSE, maxMovement |-> 0, goal |-> <<0, 0>>,
               pathMax |-> 0]
NoPathResult == [path |-> <<>>, totalCost |-> -1, reachable |-> FALSE]
NoReach == (<<-1, -1>> :> -1)

Edited(g) == { c \in DOMAIN g.tiles : g.tiles[c] # Grass }

\* values of the variables of the specifications that are not running
NoCombat == [done |-> FALSE]
IdlePath == pathArgs = NoPathArgs /\ reachRes = NoReach /\ pathRes = NoPathResult /\ pstage = "idle"
IdleCombat == combatIn = NoCombat /\ combatOut = NoCombat
NoCall == [called |-> FALSE]
IdleMgr == armies = << >> /\ made = 0 /\ calls = 0 /\ mgrOut = NoCall
IdleStore == clients = << >> /\ resolutions = << >>
IdleTurn ==
  /\ game = [currentTurn |-> 0, turnsPerMonth |-> 1]
  /\ players = << >> /\ units = << >> /\ buildings = << >> /\ settlements = << >>
  /\ relations = << >>
  /\ turnIn = NoCall /\ turnOut = NoCall /\ replayOut = NoCall /\ resets = 0
  /\ ecoOut = NoCall /\ months = 0
  /\ IdleMgr
  /\ IdleStore

InitPath ==
  /\ \E hole \in Cells(W, H) \cup { <<-1, -1>> } : grid = FilledGrid(W, H, hole)
  /\ pathArgs = NoPathArgs
  /\ reachRes = NoReach
  /\ pathRes = NoPathResult
  /\ pstage = "setup"
  /\ IdleCombat
  /\ IdleTurn

SetTile(x, y, tile) ==
  /\ pstage = "setup"
  /\ grid' = setTile(grid, x, y, tile)
  /\ Cardinality(Edited(grid')) <= MaxEdits
  /\ UNCHANGED <<pathArgs, reachRes, pathRes, pstage>>
  /\ UNCHANGED <<combatVars, turnVars, ecoVars, mgrVars, storeVars>>

CallGetReachableTiles(start, maxMovement, isNaval) ==
  /\ pstage = "setup"
  /\ pathArgs' = [start |-> start, isNaval |-> isNaval, maxMovement |-> maxMovement,
                  goal |-> start, pathMax |-> maxMovement]
  /\ reachRes' = getReachableTiles(grid, start[1], start[2], maxMovement, isNaval)
  /\ pstage' = "reached"
  /\ UNCHANGED <<grid, pathRes>>
  /\ UNCHANGED <<combatVars, turnVars, ecoVars, mgrVars, storeVars>>

\* findPath is called from the start of the getReachableTiles call, in the same
\* domain, with the same budget or a larger one
CallFindPath(goal, maxMovement) ==
  /\ pstage = "reached"
  /\ maxMovement >= pathArgs.maxMovement
  /\ pathArgs' = [pathArgs EXCEPT !.goal = goal, !.pathMax = maxMovement]
  /\ pathRes' = findPath(grid, pathArgs.start[1], pathArgs.start[2], goal[1], goal[2],
                         pathArgs.isNaval, maxMovement)
  /\ pstage' = "found"
  /\ UNCHANGED <<grid, reachRes>>
  /\ UNCHANGED <<combatVars, turnVars, ecoVars, mgrVars, storeVars>>

NextPath ==
  \/ \E c \in Cells(W, H), tile \in PathTiles : SetTile(c[1], c[2], tile)
  \/ \E start \in Starts, m \in Budgets, n \in BOOLEAN : CallGetReachableTiles(start, m, n)
  \/ \E goal \in Goals, m \in Budgets : CallFindPath(goal, m)

SpecPath == InitPath /\ [][NextPath]_vars

\* ------------------------------------------------------------------------
\* Reference for the pathfinding claims: the cost of the cheapest walk, by
\* relaxation to a fixpoint, written without the operators of the two searches
\* ------------------------------------------------------------------------

Unreached == Infinity + Infinity

SetMin(S) == CHOOSE m \in S : \A x \in S : m <= x

\* a walk may enter coordinate c: in bounds, holding a tile, passable in the domain
Enterable(g, c, isNaval) ==
  /\ c[1] >= 0 /\ c[1] < g.width /\ c[2] >= 0 /\ c[2] < g.height
  /\ c \in DOMAIN g.tiles
  /\ g.tiles[c].terrain \in TerrainKinds
  /\ IF isNaval THEN TERRAIN_DEFS[g.tiles[c].terrain].isNavalPassable
               ELSE TERRAIN_DEFS[g.tiles[c].terrain].isPassable

EnterCost(g, c) ==
  IF g.tiles[c].road THEN RoadMovementCost ELSE TERRAIN_DEFS[g.tiles[c].terrain].movementCost

Adjacent(a, b) == a # b /\ Abs(a[1] - b[1]) <= 1 /\ Abs(a[2] - b[2]) <= 1

\* the cells of a grid in row order, cell k being CellAt(g, k)
CellAt(g, k) == << (k - 1) % g.width, (k - 1) \div g.width >>
CellCount(g) == g.width * g.height

\* cost of coordinate c in a cost table d (a sequence in cell order)
CostAt(g, d, start, c) ==
  IF c = start THEN 0
  ELSE IF c[1] >= 0 /\ c[1] < g.width /\ c[2] >= 0 /\ c[2] < g.height
       THEN d[c[2] * g.width + c[1] + 1]
       ELSE Unreached

\* one relaxation of cell c against all its neighbours
Relaxed(g, d, start, isNaval, c) ==
  IF c = start THEN 0
  ELSE IF ~Enterable(g, c, isNaval) THEN Unreached
  ELSE SetMin({CostAt(g, d, start, c)} \cup
              { CostAt(g, d, start, p) + EnterCost(g, c) :
                  p \in { q \in ((c[1] - 1) .. (c[1] + 1)) \X ((c[2] - 1) .. (c[2] + 1)) :
                            Adjacent(q, c) /\ CostAt(g, d, start, q) < Unreached } })

\* one round: the table of the relaxed costs of all cells, built in cell order
RECURSIVE RelaxRound(_, _, _, _, _)
RelaxRound(g, d, start, isNaval, acc) ==
  IF Len(acc) >= CellCount(g) THEN acc
  ELSE RelaxRound(g, d, start, isNaval,
                  Append(acc, Relaxed(g, d, start, isNaval, CellAt(g, Len(acc) + 1))))

RECURSIVE Relax(_, _, _, _, _)
Relax(g, d, start, isNaval, n) ==
  LET nd == RelaxRound(g, d, start, isNaval, <<>>)
  IN IF n = 0 \/ nd = d THEN d ELSE Relax(g, nd, start, isNaval, n - 1)

\* table of the cheapest walk cost from start to every cell (Unreached if none)
WalkCost(g, start, isNaval) ==
  Relax(g, [k \in 1 .. CellCount(g) |-> IF CellAt(g, k) = start THEN 0 ELSE Unreached],
        start, isNaval, CellCount(g))

GoalCost(g, start, goal, isNaval) ==
  CostAt(g, WalkCost(g, start, isNaval), start, goal)

RECURSIVE PathCost(_, _, _)
PathCost(g, path, k) ==
  IF k <= 1 THEN 0 ELSE PathCost(g, path, k - 1) + EnterCost(g, path[k])

\* ------------------------------------------------------------------------
\* Claims on the pathfinders
\* ------------------------------------------------------------------------

\* C3: every tile in the map returned by getReachableTiles has the cost that
\* findPath reports as totalCost from the same start in the same domain, and
\* findPath reports the tile as reachable.
C3_ReachableAgreesWithFindPath ==
  (pstage = "found" /\ pathArgs.goal \in DOMAIN reachRes)
    => /\ pathRes.reachable
       /\ pathRes.totalCost = reachRes[pathArgs.goal]

\* a tile two steps away that both searches reach at a cost above its distance
C3_Witness ==
  /\ pstage = "found"
  /\ pathArgs.goal \in DOMAIN reachRes
  /\ pathRes.reachable
  /\ pathRes.totalCost = reachRes[pathArgs.goal]
  /\ pathRes.totalCost > heuristic(pathArgs.start[1], pathArgs.start[2],
                                   pathArgs.goal[1], pathArgs.goal[2])
  /\ Len(pathRes.path) > 2

C6_UnreachableResult ==
  (/\ pstage = "found"
   /\ GoalCost(grid, pathArgs.start, pathArgs.goal, pathArgs.isNaval) > pathArgs.pathMax)
    => pathRes = [path |-> <<>>, totalCost |-> 0, reachable |-> FALSE]

\* a goal that a walk reaches, but only above the budget
C6_Witness ==
  /\ pstage = "found"
  /\ GoalCost(grid, pathArgs.start, pathArgs.goal, pathArgs.isNaval) > pathArgs.pathMax
  /\ GoalCost(grid, pathArgs.start, pathArgs.goal, pathArgs.isNaval) < Unreached
  /\ pathRes = [path |-> <<>>, totalCost |-> 0, reachable |-> FALSE]

\* C7: a reachable result's path starts at the start, ends at the goal, moves
\* one 8-neighbour step at a time, enters only passable tiles, has a cost that
\* never decreases along it and ends at totalCost, which is at most maxCost.
C7_PathWellFormed ==
  (pstage = "found" /\ pathRes.reachable)
    => LET path == pathRes.path
       IN /\ Len(path) >= 1
          /\ path[1] = pathArgs.start
          /\ path[Len(path)] = pathArgs.goal
          /\ \A k \in 2 .. Len(path) :
               /\ Max2(Abs(path[k][1] - path[k - 1][1]), Abs(path[k][2] - path[k - 1][2])) = 1
               /\ Enterable(grid, path[k], pathArgs.isNaval)
               /\ PathCost(grid, path, k) >= PathCost(grid, path, k - 1)
          /\ PathCost(grid, path, Len(path)) = pathRes.totalCost
          /\ pathRes.totalCost <= pathArgs.pathMax

\* a path of three steps or more found under the finite budget
C7_Witness ==
  /\ pstage = "found"
  /\ pathRes.reachable
  /\ Len(pathRes.path) >= 4
  /\ pathArgs.pathMax = Budget
  /\ PathCost(grid, pathRes.path, Len(pathRes.path)) = pathRes.totalCost

\* ------------------------------------------------------------------------
\* Combat specification: SimpleCombatResolver.resolve is called once on two
\* units of known types standing on two tiles, and its result is applied
\* ------------------------------------------------------------------------

\* the values Math.random() takes in this specification, in hundredths; the
\* largest one gives the factor 1.2, the closed end of the documented range
CombatRolls == { (100 * i) \div RollSteps : i \in 0..RollSteps }

\* the defender's tile lies at Chebyshev distance 0, 1, 2 and 3 of the attacker's
CombatAttackerTiles == { [x |-> 0, y |-> 0, terrain |-> t, river |-> FALSE] : t \in {"grass", "moun"} }
CombatDefenderTiles ==
  { [x |-> c[1], y |-> c[2], terrain |-> t, river |-> rv] :
      c \in { <<0, 0>>, <<1, 1>>, <<0, 2>>, <<3, 1>> }, t \in {"grass", "hefo", "lava"},
      rv \in BOOLEAN }

InitCombat ==
  /\ grid = FilledGrid(1, 1, <<-1, -1>>)
  /\ IdlePath
  /\ IdleTurn
  /\ \E at \in UnitTypeIds, dt \in UnitTypeIds, aTile \in CombatAttackerTiles,
        dTile \in CombatDefenderTiles :
       \E ahp \in {1, UNIT_TYPES[at].hp}, dhp \in {1, UNIT_TYPES[dt].hp} :
         combatIn = [attacker |-> MkUnit(<<"uuid", 1>>, at, "p1", aTile.x, aTile.y, ahp, TRUE, FALSE, FALSE, 0),
                     defender |-> MkUnit(<<"uuid", 2>>, dt, "p2", dTile.x, dTile.y, dhp, TRUE, FALSE, FALSE, 0),
                     attackerTile |-> aTile, defenderTile |-> dTile, turn |-> 1]
  /\ combatOut = NoCombat

\* executeCombat followed by applyCombatResult, as the turn engine chains them
ExecuteCombat(r1, r2) ==
  /\ ~combatOut.done
  /\ LET result == executeCombat(combatIn.attacker, combatIn.defender, combatIn.attackerTile,
                                 combatIn.defenderTile, combatIn.turn, r1, r2)
     IN combatOut' = [done |-> TRUE, result |-> result,
                      after |-> applyCombatResult(combatIn.attacker, combatIn.defender, result)]
  /\ UNCHANGED <<grid, pathVars, combatIn, turnVars, ecoVars, mgrVars, storeVars>>

NextCombat == \E r1 \in CombatRolls, r2 \in CombatRolls : ExecuteCombat(r1, r2)

SpecCombat == InitCombat /\ [][NextCombat]_vars

\* C8: whatever the two known unit types, the two tiles and the random factor,
\* resolve returns defenderDamage >= 1 and attackerDamage >= 0, and
\* attackerDamage = 0 when the tiles are further apart than the defender's
\* range; attack 10 against defense 10 on terrain bonus 1.0 without river
\* deals 3 to 7 damage for every factor from 0.8 to 1.2
C8_CombatDamageBounds ==
  /\ combatOut.done =>
       /\ combatOut.result.defenderDamage >= 1
       /\ combatOut.result.attackerDamage >= 0
       /\ getDistance(combatIn.attackerTile, combatIn.defenderTile)
             > UNIT_TYPES[combatIn.defender.typeId].range
            => combatOut.result.attackerDamage = 0
  /\ \A r \in 0..100 :
       /\ damageToDefender(10, 10, 10, FALSE, r) \in 3..7
       /\ damageToDefender(10, 10, 10, FALSE, r)
            = (10 * randomFactor(r) - 50000 + 5000) \div 10000

\* the clamp to 1 acted (a peasant hits a knight) and the defender, out of
\* range, did not strike back
C8_Witness ==
  /\ combatOut.done
  /\ combatIn.attacker.typeId = "peasant" /\ combatIn.defender.typeId = "knight"
  /\ getDistance(combatIn.attackerTile, combatIn.defenderTile) = 2
  /\ combatOut.result.defenderDamage = 1
  /\ combatOut.result.attackerDamage = 0

\* ------------------------------------------------------------------------
\* Turn specification: resolveTurn is called turn after turn on a two-player
\* game; the caller stores the updated collections, appends the new units and
\* advances the turn counter (stores/gameStore.ts, resolveTurn)
\* ------------------------------------------------------------------------

\* the values Math.random() takes in the turn specification, in hundredths:
\* the two ends of its range
TurnRolls == {0, 99}
\* the values of Date.now()
Instants == 1..ClockTicks

\* the map: grassland with a river tile, a forest owned by the second player,
\* a mountain, and one coordinate without tile
TurnGrid ==
  [width |-> TurnW, height |-> TurnH,
   tiles |-> [c \in Cells(TurnW, TurnH) |->
                CASE c = <<0, 0>> -> MkTile("grass", FALSE, FALSE, "p1")
                  [] c = <<1, 0>> -> MkTile("grass", TRUE, FALSE, "none")
                  [] c = <<2, 0>> -> MkTile("hefo", FALSE, FALSE, "p2")
                  [] c = <<1, 1>> -> MkTile("moun", FALSE, FALSE, "none")
                  [] c = <<2, 1>> -> NoTile
                  [] OTHER -> Grass]]

IdM2 == <<"uuid", 1>>
IdMi == <<"uuid", 2>>
IdPe == <<"uuid", 3>>

MoveAction(playerId, unitId, target) ==
  [type |-> "move", playerId |-> playerId, unitId |-> unitId,
   targetX |-> target[1], targetY |-> target[2]]
BuildAction(playerId, buildingTypeId, at, sacrificeUnitId) ==
  [type |-> "build", playerId |-> playerId, buildingTypeId |-> buildingTypeId,
   x |-> at[1], y |-> at[2], sacrificeUnitId |-> sacrificeUnitId]

\* the actions players submit: moves into contact with the enemy, a move by a
\* player who does not own the unit, a move to a coordinate outside the grid,
\* a build that sacrifices a unit
TurnActions ==
  { MoveAction("p2", IdM2, <<1, 0>>),
    MoveAction("p1", IdPe, <<1, 1>>),
    MoveAction("p2", IdMi, <<1, 0>>),
    MoveAction("p1", IdMi, <<TurnW, 0>>),
    BuildAction("p1", "house", <<0, 0>>, IdPe) }

\* the action lists of at most MaxActions actions
RECURSIVE ActionLists(_)
ActionLists(n) ==
  IF n = 0 THEN { << >> }
  ELSE LET shorter == ActionLists(n - 1)
       IN shorter \cup { Append(l, a) : l \in { s \in shorter : Len(s) = n - 1 },
                                        a \in TurnActions }

\* a snapshot of the game: the Game, the diplomacy relations and the peasant
\* of the first player
InitTurnOf(gm, rels, pe) ==
  /\ grid = TurnGrid
  /\ IdlePath
  /\ IdleCombat
  /\ game = gm
  /\ players = << [id |-> "p1", name |-> "p1", factionId |-> "yanovie",
                   resources |-> [emptyResources EXCEPT !["dricks"] = 5, !["grain"] = 1],
                   turnPlayed |-> TRUE],
                  [id |-> "p2", name |-> "p2", factionId |-> "bansag",
                   resources |-> [emptyResources EXCEPT !["dricks"] = 1],
                   turnPlayed |-> TRUE] >>
  /\ \E hp \in {1, UNIT_TYPES["militia"].hp} :
       units = << MkUnit(IdM2, "militia", "p2", 2, 0, hp, TRUE, TRUE, FALSE, 0),
                  MkUnit(IdMi, "militia", "p1", 0, 1, UNIT_TYPES["militia"].hp, TRUE, FALSE,
                         TRUE, 0),
                  pe >>
  /\ buildings = << [id |-> <<"bldg", 0, 0>>, typeId |-> "house", ownerId |-> "p1",
                     x |-> 0, y |-> 0, isConstructed |-> FALSE, turnsRemaining |-> 2,
                     createdTurn |-> 0] >>
  /\ settlements = << [id |-> <<"stl", 1>>, ownerId |-> "p1", name |-> "s1",
                       tier |-> "campfire", isUpgrading |-> TRUE,
                       upgradeTurnsRemaining |-> 1] >>
  /\ relations = rels
  /\ turnIn = NoCall /\ turnOut = NoCall /\ replayOut = NoCall /\ resets = 0
  /\ ecoOut = NoCall /\ months = 0
  /\ IdleMgr
  /\ IdleStore

\* the snapshot of the game at the given turn: a month of two turns, the two
\* players at war, the peasant wounded
InitTurnAt(turn) ==
  InitTurnOf([currentTurn |-> turn, turnsPerMonth |-> 2],
             << [playerA |-> "p2", playerB |-> "p1", status |-> "enemy"] >>,
             MkUnit(IdPe, "peasant", "p1", 0, 0, 3, TRUE, FALSE, FALSE, 0))

InitTurn == InitTurnAt(1)

\* a sequence of n entries: the drawn ones, then the default for the values
\* of Math.random() that the call does not consume
Padded(drawn, n, default) ==
  [k \in 1..n |-> IF k \in DOMAIN drawn THEN drawn[k] ELSE default]

\* the indexes of the units for which phase 6 may roll a reproduction
Reproducers(gm, us) ==
  IF isMonthlyTurn(gm)
    THEN { i \in 1..Len(us) : us[i].isAlive /\ UNIT_TYPES[us[i].typeId].canReproduce }
    ELSE {}

\* the number of combat pairs phase 2 finds once the moves are applied
PairCount(us, actions, rels) ==
  Len(findCombatPairs(MovementFrom(us, SelectSeq(actions, LAMBDA a : a.type = "move"), 1),
                      rels))

\* the caller of the engine's contract: the next call is made on the updated
\* collections of the result (their objects are those of the arguments,
\* mutated in place), the new units join the units, the turn counter advances
StoreResult(actions, result) ==
  /\ players' = result.updatedPlayers
  /\ units' = result.updatedUnits \o result.newUnits
  /\ buildings' = result.updatedBuildings
  /\ settlements' = result.updatedSettlements
  /\ turnIn' = [called |-> TRUE, game |-> game, players |-> players, units |-> units,
                buildings |-> buildings, settlements |-> settlements, actions |-> actions]
  /\ turnOut' = [called |-> TRUE] @@ result
  /\ game' = [game EXCEPT !.currentTurn = @ + 1]

\* one resolveTurn call
ResolveTurn(actions, rnd) ==
  /\ StoreResult(actions, resolveTurn(game, players, units, buildings, settlements, actions,
                                      grid, relations, rnd))
  /\ UNCHANGED <<grid, pathVars, combatVars, relations, replayOut, resets, ecoVars, mgrVars, storeVars>>

\* the hidden inputs of a call: a combat roll for each pair phase 2 finds, an
\* identifier suffix for each build action, a reproduction roll for each
\* living unit of a reproducing type
Next ==
  /\ game.currentTurn < MaxTurn
  /\ \E actions \in ActionLists(MaxActions) :
    \E c \in [1..PairCount(units, actions, relations) -> TurnRolls \X TurnRolls],
       b \in [1..Len(SelectSeq(actions, LAMBDA a : a.type = "build")) -> TurnRolls],
       r \in [Reproducers(game, units) -> TurnRolls \X TurnRolls],
       now \in Instants :
      ResolveTurn(actions,
                  [now |-> now,
                   combat |-> Padded(c, Len(units) * Len(units), <<0, 0>>),
                   build |-> Padded(b, Len(actions), 0),
                   repro |-> [i \in 1..Len(units) |->
                                IF i \in DOMAIN r THEN r[i] ELSE <<0, 0>>]])

Spec == InitTurn /\ [][Next]_vars

\* ------------------------------------------------------------------------
\* Vocabulary of the turn claims
\* ------------------------------------------------------------------------

Indexes(seq) == 1..Len(seq)
Chebyshev(u, v) == Max2(Abs(u.x - v.x), Abs(u.y - v.y))
HpSound(u) == u.currentHp >= 0 /\ (u.isAlive => u.currentHp > 0)
\* the call was made on a monthly turn
MonthlyCall == turnOut.called /\ isMonthlyTurn(turnIn.game)
\* a combat log of the call names the units of indexes i and j
Fought(i, j) ==
  \E k \in Indexes(turnOut.combatLogs) :
    {turnOut.combatLogs[k].attackerUnitId, turnOut.combatLogs[k].defenderUnitId}
      = {turnIn.units[i].id, turnIn.units[j].id}
\* the unit of index i was alive when the call began and is dead after it
DiedInCall(i) == turnIn.units[i].isAlive /\ ~turnOut.updatedUnits[i].isAlive
\* the entries of the reports of the call that name the source
EntriesOf(sourceId) ==
  { e \in UNION { { r.gains[k] : k \in Indexes(r.gains) }
                    \cup { r.losses[k] : k \in Indexes(r.losses) } :
                  r \in { turnOut.reports[p] : p \in Indexes(turnOut.reports) } } :
      e.sourceId = sourceId }

\* C9: after any sequence of resolveTurn calls from a sound snapshot, every
\* unit of updatedUnits and newUnits has currentHp >= 0, and currentHp > 0 if
\* it is alive
C9_HpSound ==
  /\ \A i \in Indexes(units) : HpSound(units[i])
  /\ turnOut.called =>
       /\ \A i \in Indexes(turnOut.updatedUnits) : HpSound(turnOut.updatedUnits[i])
       /\ \A i \in Indexes(turnOut.newUnits) : HpSound(turnOut.newUnits[i])

\* in a call that ran the economy phase, a unit took more damage than it had
\* hit points left and lies at 0
C9_Witness ==
  /\ MonthlyCall
  /\ \E k \in Indexes(turnOut.combatLogs), i \in Indexes(turnIn.units) :
       /\ turnIn.units[i].id = turnOut.combatLogs[k].defenderUnitId
       /\ turnIn.units[i].currentHp < turnOut.combatLogs[k].defenderDamage
       /\ turnOut.updatedUnits[i].currentHp = 0

\* C10 as stated: every living unit stays inside the grid whatever move
\* actions are submitted
C10_LivingUnitsInBounds ==
  \A i \in Indexes(units) : units[i].isAlive => isInBounds(grid, units[i].x, units[i].y)

\* C1: the phases of a call run in the order movement, combat, build,
\* construction tick, upgrade tick, economy, reset.  The combat pairs are those
\* of the positions after the moves; a unit that died in the call, in combat
\* or by sacrifice, has no upkeep entry and no reproduction entry and bears no
\* unit; a building the construction tick completes produces in the economy
\* phase of the same call; the flags the moves set are cleared
C1_PhaseOrder ==
  turnOut.called =>
    /\ \A i \in Indexes(turnIn.units), j \in Indexes(turnIn.units) :
         /\ Fought(i, j) /\ i # j
              => Chebyshev(turnOut.updatedUnits[i], turnOut.updatedUnits[j]) <= 1
         /\ ( /\ i < j
              /\ turnOut.updatedUnits[i].isAlive /\ turnOut.updatedUnits[j].isAlive
              /\ getRelation(turnIn.units[i].ownerId, turnIn.units[j].ownerId, relations)
                   = "enemy"
              /\ Chebyshev(turnOut.updatedUnits[i], turnOut.updatedUnits[j]) <= 1
              /\ getTile(grid, turnOut.updatedUnits[i].x, turnOut.updatedUnits[i].y) # NoTile
              /\ getTile(grid, turnOut.updatedUnits[j].x, turnOut.updatedUnits[j].y) # NoTile )
              => Fought(i, j)
    /\ \A i \in Indexes(turnIn.units) :
         DiedInCall(i) => EntriesOf(turnIn.units[i].id) = {}
    /\ \A n \in Indexes(turnOut.newUnits) :
         \E i \in Indexes(turnIn.units) :
           /\ turnOut.updatedUnits[i].isAlive
           /\ turnOut.updatedUnits[i].typeId = turnOut.newUnits[n].typeId
           /\ turnOut.updatedUnits[i].ownerId = turnOut.newUnits[n].ownerId
           /\ turnOut.updatedUnits[i].x = turnOut.newUnits[n].x
           /\ turnOut.updatedUnits[i].y = turnOut.newUnits[n].y
    /\ \A b \in Indexes(turnIn.buildings) :
         ( /\ MonthlyCall
           /\ ~turnIn.buildings[b].isConstructed /\ turnIn.buildings[b].turnsRemaining = 1
           /\ turnIn.buildings[b].typeId \in DOMAIN BUILDING_TYPES
           /\ BUILDING_TYPES[turnIn.buildings[b].typeId].production # << >>
           /\ \E p \in Indexes(turnIn.players) :
                turnIn.players[p].id = turnIn.buildings[b].ownerId )
           => /\ turnOut.updatedBuildings[b].isConstructed
              /\ \E e \in EntriesOf(turnIn.buildings[b].id) : ~e.isMalus
    /\ \A i \in Indexes(turnOut.updatedUnits) :
         turnOut.updatedUnits[i].isAlive => ~turnOut.updatedUnits[i].hasMoved

\* a monthly call in which a unit moved into contact and was killed in the
\* fight, another unit was sacrificed to a building, and a building was
\* completed
C1_Witness ==
  /\ MonthlyCall
  /\ \E i \in Indexes(turnIn.units), j \in Indexes(turnIn.units) :
       /\ Chebyshev(turnIn.units[i], turnIn.units[j]) > 1
       /\ Fought(i, j)
       /\ DiedInCall(i)
       /\ UNIT_TYPES[turnIn.units[i].typeId].upkeep # << >>
  /\ \E i \in Indexes(turnIn.units), k \in Indexes(turnIn.actions) :
       /\ turnIn.actions[k].type = "build"
       /\ turnIn.actions[k].sacrificeUnitId = turnIn.units[i].id
       /\ DiedInCall(i)
       /\ \A l \in Indexes(turnOut.combatLogs) :
            turnOut.combatLogs[l].defenderUnitId = turnIn.units[i].id
              => turnOut.combatLogs[l].defenderSurvived
  /\ \E b \in Indexes(turnIn.buildings) :
       /\ ~turnIn.buildings[b].isConstructed
       /\ turnOut.updatedBuildings[b].isConstructed
       /\ EntriesOf(turnIn.buildings[b].id) # {}

\* ------------------------------------------------------------------------
\* Replay specification: resolveTurn is invoked twice on the same snapshot
\* and the same action list.  The engine takes no seed and no clock: each
\* invocation reads Math.random() and Date.now() for itself
\* ------------------------------------------------------------------------

InitReplay == \E turn \in 1..(MaxTurn - 1) : InitTurnAt(turn)

Replay(actions, rndA, rndB) ==
  /\ ~replayOut.called
  /\ StoreResult(actions, resolveTurn(game, players, units, buildings, settlements, actions,
                                      grid, relations, rndA))
  /\ replayOut' = [called |-> TRUE]
                    @@ resolveTurn(game, players, units, buildings, settlements, actions,
                                   grid, relations, rndB)
  /\ UNCHANGED <<grid, pathVars, combatVars, relations, resets, ecoVars, mgrVars, storeVars>>

\* the hidden inputs of one invocation
Draws(actions) ==
  { [now |-> now,
     combat |-> Padded(c, Len(units) * Len(units), <<0, 0>>),
     build |-> Padded(b, Len(actions), 0),
     repro |-> [i \in 1..Len(units) |-> IF i \in DOMAIN r THEN r[i] ELSE <<0, 0>>]] :
      c \in [1..PairCount(units, actions, relations) -> TurnRolls \X TurnRolls],
      b \in [1..Len(SelectSeq(actions, LAMBDA a : a.type = "build")) -> TurnRolls],
      r \in [Reproducers(game, units) -> TurnRolls \X TurnRolls],
      now \in Instants }

NextReplay ==
  \E actions \in ActionLists(1) :
    \E rndA \in Draws(actions), rndB \in Draws(actions) : Replay(actions, rndA, rndB)

SpecReplay == InitReplay /\ [][NextReplay]_vars

\* C2 as stated: two invocations on equal snapshots and equal action lists
\* produce identical combat logs, new units, updated players, units,
\* buildings and settlements, and messages
C2_SameOutputs ==
  replayOut.called =>
    /\ replayOut.combatLogs = turnOut.combatLogs
    /\ replayOut.newUnits = turnOut.newUnits
    /\ replayOut.updatedPlayers = turnOut.updatedPlayers
    /\ replayOut.updatedUnits = turnOut.updatedUnits
    /\ replayOut.updatedBuildings = turnOut.updatedBuildings
    /\ replayOut.updatedSettlements = turnOut.updatedSettlements
    /\ replayOut.messages = turnOut.messages

\* ------------------------------------------------------------------------
\* Economy specification: the methods of EconomyEngine are called for one
\* player, month after month, the way phase 6 of resolveTurn chains them:
\* simulate, executeProduction, the assignment of the new pool to the player,
\* processReproduction
\* ------------------------------------------------------------------------

\* the map: a grassland tile that the player owns or not, an owned mountain
EcoGrid(owner) ==
  [width |-> 2, height |-> 1,
   tiles |-> [c \in Cells(2, 1) |->
                IF c = <<0, 0>> THEN MkTile("grass", FALSE, FALSE, owner)
                ELSE MkTile("moun", FALSE, FALSE, "p1")]]

\* the player's pool: empty, or with something of every resource
EcoPools ==
  { emptyResources,
    [emptyResources EXCEPT !["dricks"] = 3, !["grain"] = 2, !["fruit"] = 1] }

\* the units: a living peasant, a dead one, a militia and a knight
EcoUnitKinds ==
  { [typeId |-> "peasant", x |-> 0, y |-> 0, currentHp |-> 10, isAlive |-> TRUE],
    [typeId |-> "peasant", x |-> 1, y |-> 0, currentHp |-> 0, isAlive |-> FALSE],
    [typeId |-> "militia", x |-> 1, y |-> 0, currentHp |-> 15, isAlive |-> TRUE],
    [typeId |-> "knight", x |-> 0, y |-> 0, currentHp |-> 20, isAlive |-> TRUE] }

\* the unit arrays: every array of at most two units, and a knight, a militia
\* and a peasant together (an upkeep of 5 grain)
EcoUnitLists ==
  LET kinds == { << >> } \cup { <<a>> : a \in EcoUnitKinds }
                 \cup { <<a, b>> : a \in EcoUnitKinds, b \in EcoUnitKinds }
                 \cup { << [typeId |-> "knight", x |-> 0, y |-> 0, currentHp |-> 20,
                            isAlive |-> TRUE],
                           [typeId |-> "militia", x |-> 1, y |-> 0, currentHp |-> 15,
                            isAlive |-> TRUE],
                           [typeId |-> "peasant", x |-> 0, y |-> 0, currentHp |-> 10,
                            isAlive |-> TRUE] >> }
  IN { [k \in 1..Len(l) |->
          MkUnit(<<"uuid", k>>, l[k].typeId, "p1", l[k].x, l[k].y, l[k].currentHp,
                 l[k].isAlive, FALSE, FALSE, 0)] : l \in kinds }

EcoBuilding(typeId, isConstructed) ==
  [id |-> <<"bldg", 0, 0>>, typeId |-> typeId, ownerId |-> "p1", x |-> 0, y |-> 0,
   isConstructed |-> isConstructed, turnsRemaining |-> IF isConstructed THEN 0 ELSE 1,
   createdTurn |-> 0]

EcoBuildingLists ==
  { << >>, << EcoBuilding("house", TRUE) >>, << EcoBuilding("farm_building", TRUE) >>,
    << EcoBuilding("house", FALSE) >> }

EcoSettlementLists ==
  { << >> } \cup
  { << [id |-> <<"stl", 1>>, ownerId |-> "p1", name |-> "s1", tier |-> t,
        isUpgrading |-> FALSE, upgradeTurnsRemaining |-> 0] >> : t \in {"campfire", "village"} }

\* the values of Math.random() in processReproduction, in hundredths: the two
\* ends of its range and the two values around the peasant's chance
EcoRolls == {0, 14, 15, 99}

InitEconomy ==
  /\ \E owner \in {"p1", "none"} : grid = EcoGrid(owner)
  /\ IdlePath
  /\ IdleCombat
  /\ game = [currentTurn |-> 2, turnsPerMonth |-> 2]
  /\ \E f \in FactionIds, pool \in EcoPools :
       players = << [id |-> "p1", name |-> "p1", factionId |-> f, resources |-> pool,
                     turnPlayed |-> TRUE] >>
  /\ units \in EcoUnitLists
  /\ buildings \in EcoBuildingLists
  /\ settlements \in EcoSettlementLists
  /\ relations = << >>
  /\ turnIn = NoCall /\ turnOut = NoCall /\ replayOut = NoCall /\ resets = 0
  /\ ecoOut = NoCall /\ months = 0
  /\ IdleMgr
  /\ IdleStore

\* the arguments of the methods that are not the grid
ecoArgs == <<game, players, units, buildings, settlements, relations>>

\* economyEngine.simulate(player, playerUnits, ..., playerTiles, grid, turn)
SimulateOnThePool ==
  /\ months < MaxMonths
  /\ IF ecoOut.called THEN ecoOut.op = "processReproduction" ELSE TRUE
  /\ ecoOut' = [called |-> TRUE, op |-> "simulate",
                report |-> simulate(players[1], units, buildings, settlements,
                                    getPlayerTiles(grid, players[1].id), game.currentTurn)]
  /\ players' = [players EXCEPT ![1].resources =
                   [k \in ResourceKinds |-> @[k] + ecoOut'.report.netResources[k]]]
  /\ UNCHANGED <<grid, pathVars, combatVars, game, units, buildings, settlements, relations,
                 turnIn, turnOut, replayOut, resets, months, mgrVars, storeVars>>

Simulate ==
  /\ months < MaxMonths
  /\ IF ecoOut.called THEN ecoOut.op = "processReproduction" ELSE TRUE
  /\ ecoOut' = [called |-> TRUE, op |-> "simulate",
                report |-> simulate(players[1], units, buildings, settlements,
                                    getPlayerTiles(grid, players[1].id), game.currentTurn)]
  /\ UNCHANGED <<grid, pathVars, combatVars, ecoArgs, turnIn, turnOut, replayOut, resets, months, mgrVars, storeVars>>

\* economyEngine.executeProduction(player, report): newResources is a copy of
\* the player's pool, the pool itself is not written
ExecuteProduction ==
  /\ ecoOut.called /\ ecoOut.op = "simulate"
  /\ ecoOut' = [called |-> TRUE, op |-> "executeProduction", report |-> ecoOut.report,
                result |-> executeProduction(players[1], ecoOut.report)]
  /\ UNCHANGED <<grid, pathVars, combatVars, ecoArgs, turnIn, turnOut, replayOut, resets, months, mgrVars, storeVars>>

\* player.resources = newResources
AssignResources ==
  /\ ecoOut.called /\ ecoOut.op = "executeProduction"
  /\ players' = [players EXCEPT ![1].resources = ecoOut.result.newResources]
  /\ months' = months + 1
  /\ ecoOut' = [called |-> TRUE, op |-> "assign", report |-> ecoOut.report]
  /\ UNCHANGED <<grid, pathVars, combatVars, game, units, buildings, settlements, relations,
                 turnIn, turnOut, replayOut, resets, mgrVars, storeVars>>

\* economyEngine.processReproduction(playerUnits, turn)
ProcessReproduction(rolls) ==
  /\ ecoOut.called /\ ecoOut.op = "assign"
  /\ ecoOut' = [called |-> TRUE, op |-> "processReproduction", report |-> ecoOut.report,
                rolls |-> rolls,
                newUnits |-> processReproduction(units, game.currentTurn, 1, rolls)]
  /\ UNCHANGED <<grid, pathVars, combatVars, ecoArgs, turnIn, turnOut, replayOut, resets, months, mgrVars, storeVars>>

\* a roll is drawn for each living unit of a reproducing type
NextEconomy ==
  \/ Simulate
  \/ ExecuteProduction
  \/ AssignResources
  \/ \E r \in [{ i \in 1..Len(units) : units[i].isAlive /\ UNIT_TYPES[units[i].typeId].canReproduce }
                 -> EcoRolls] :
       ProcessReproduction([i \in 1..Len(units) |-> IF i \in DOMAIN r THEN <<r[i], 0>> ELSE <<0, 0>>])

SpecEconomy == InitEconomy /\ [][NextEconomy]_vars

\* ------------------------------------------------------------------------
\* Claims on the economy engine
\* ------------------------------------------------------------------------

\* the last call of the economy specification is a call of the method
EcoCalled(op) == ecoOut.called /\ ecoOut.op = op
\* the kinds of the warnings of a report
WarningKinds(report) == { report.warnings[k][1] : k \in Indexes(report.warnings) }

\* C11: every entry of the newResources that executeProduction returns is
\* max(0, pool amount + net delta) and so is not negative; the call leaves the
\* player's own pool as it was; no player ever holds a negative amount of a
\* resource
C11_ProductionClamped ==
  /\ [](\A p \in Indexes(players), k \in ResourceKinds : players[p].resources[k] >= 0)
  /\ [](EcoCalled("executeProduction") =>
          \A k \in ResourceKinds :
            /\ ecoOut.result.newResources[k] >= 0
            /\ ecoOut.result.newResources[k]
                 = (IF players[1].resources[k] + ecoOut.report.netResources[k] > 0
                      THEN players[1].resources[k] + ecoOut.report.netResources[k]
                      ELSE 0))
  /\ [][(ecoOut'.called /\ ecoOut'.op = "executeProduction") => players' = players]_vars

\* executeProduction absorbed a deficit: a resource the player holds is at 0
\* in newResources, and the player still holds it
C11_Witness ==
  /\ EcoCalled("executeProduction")
  /\ \E k \in ResourceKinds :
       /\ players[1].resources[k] > 0
       /\ players[1].resources[k] + ecoOut.report.netResources[k] < 0
       /\ ecoOut.result.newResources[k] = 0

\* C12: a call of simulate leaves the player and its pool, the units, the
\* buildings, the settlements and the grid with its tiles as they were
C12_SimulatePure ==
  [][(ecoOut'.called /\ ecoOut'.op = "simulate") => UNCHANGED <<grid, ecoArgs>>]_vars

\* simulate returned a report with gains, losses and a net that is not zero
C12_Witness ==
  /\ EcoCalled("simulate")
  /\ ecoOut.report.gains # << >>
  /\ ecoOut.report.losses # << >>
  /\ ecoOut.report.netResources # emptyResources

\* C13: a report of simulate warns of a grain shortage exactly when its net
\* grain is negative, of a treasury deficit exactly when its net Dricks is
\* negative, and of nothing else; for a player without grain and a net grain
\* of -5 the grain warning is there and executeProduction returns grain 0
C13_Warnings ==
  ecoOut.called =>
    /\ ("grain" \in WarningKinds(ecoOut.report)) <=> (ecoOut.report.netResources["grain"] < 0)
    /\ ("dricks" \in WarningKinds(ecoOut.report)) <=> (ecoOut.report.netResources["dricks"] < 0)
    /\ WarningKinds(ecoOut.report) \subseteq {"grain", "dricks"}
    /\ Len(ecoOut.report.warnings) = Cardinality(WarningKinds(ecoOut.report))
    /\ (/\ ecoOut.op = "executeProduction"
        /\ players[1].resources["grain"] = 0
        /\ ecoOut.report.netResources["grain"] = -5)
         => /\ "grain" \in WarningKinds(ecoOut.report)
            /\ ecoOut.result.newResources["grain"] = 0

\* the player has no grain, the net grain of the report is -5, the report
\* warns of the shortage and of nothing else, executeProduction returned grain 0
C13_Witness ==
  /\ EcoCalled("executeProduction")
  /\ players[1].resources["grain"] = 0
  /\ ecoOut.report.netResources["grain"] = -5
  /\ ecoOut.report.netResources["dricks"] >= 0
  /\ WarningKinds(ecoOut.report) = {"grain"}
  /\ ecoOut.result.newResources["grain"] = 0

\* the gains of a report that are faction bonuses on the resource, and those
\* of the resource that are not
BonusGains(report, res) ==
  SelectSeq(report.gains, LAMBDA e : e.sourceId = <<"faction_bonus">> /\ e.resource = res)
PlainGains(report, res) ==
  SelectSeq(report.gains, LAMBDA e : e.sourceId # <<"faction_bonus">> /\ e.resource = res)
\* the net of the resource from building production, tile yield, tax and upkeep
RunningNet(report, res) ==
  SumAmountFrom(PlainGains(report, res), res, 1) - SumAmountFrom(report.losses, res, 1)
\* the percentage of the faction's economic bonus on the resource: Dricks for
\* a description with 'Dricks', grain for one with 'nourriture'
BonusPercent(factionId, res) ==
  LET bonus == FACTIONS[factionId].bonuses[1]
  IN IF bonus.type = "economic"
        /\ ((res = "dricks" /\ bonus.dricks) \/ (res = "grain" /\ bonus.nourriture))
       THEN bonus.value ELSE 0

\* C14: the faction bonus on a resource is the percentage of the net that
\* building production, tile yield, upkeep and tax have accumulated, rounded to
\* the nearest integer; it is entered after those gains and added to the net
\* only when it is at least 1, so a net that is zero or negative gets no bonus
\* and no bonus lowers a net
C14_FactionBonus ==
  ecoOut.called =>
    \A res \in ResourceKinds :
      LET report == ecoOut.report
          base == RunningNet(report, res)
          twice == 2 * base * BonusPercent(players[1].factionId, res)
          bonuses == BonusGains(report, res)
      IN /\ IF twice >= 100
              THEN /\ Len(bonuses) = 1
                   /\ bonuses[1].amount > 0
                   /\ 200 * bonuses[1].amount - 100 <= twice
                   /\ twice < 200 * bonuses[1].amount + 100
                   /\ ~bonuses[1].isMalus
                   /\ report.netResources[res] = base + bonuses[1].amount
                   /\ report.gains[Len(report.gains)].sourceId = <<"faction_bonus">>
              ELSE /\ bonuses = << >>
                   /\ report.netResources[res] = base
         /\ report.netResources[res] >= base
         /\ base <= 0 => bonuses = << >>

\* a Dricks bonus of 2 on a running net of 11: the house's 2 and the village's
\* tax of 10 less the militia's upkeep of 1
C14_Witness ==
  /\ ecoOut.called
  /\ players[1].factionId = "bansag"
  /\ RunningNet(ecoOut.report, "dricks") = 11
  /\ ecoOut.report.losses # << >>
  /\ \E k \in Indexes(ecoOut.report.gains) : ecoOut.report.gains[k].sourceId = <<"tax">>
  /\ Len(BonusGains(ecoOut.report, "dricks")) = 1
  /\ BonusGains(ecoOut.report, "dricks")[1].amount = 2
  /\ ecoOut.report.netResources["dricks"] = 13

\* the unit may be the parent of the new unit: alive, of a reproducing type,
\* and the new unit has its type, owner and tile
ParentOf(parent, child) ==
  /\ parent.isAlive
  /\ UNIT_TYPES[parent.typeId].canReproduce
  /\ child.typeId = parent.typeId
  /\ child.ownerId = parent.ownerId
  /\ child.x = parent.x /\ child.y = parent.y

\* C15: every unit processReproduction returns has a living parent of a
\* reproducing type among the units given, stands on the parent's tile with
\* the parent's type and owner, has the base hit points of the type, is alive
\* and flagged as moved and acted; no more units are returned than there are
\* such parents; the units given are left as they were
C15_Reproduction ==
  /\ [](EcoCalled("processReproduction") =>
          /\ \A n \in Indexes(ecoOut.newUnits) :
               /\ \E i \in Indexes(units) : ParentOf(units[i], ecoOut.newUnits[n])
               /\ ecoOut.newUnits[n].currentHp = UNIT_TYPES[ecoOut.newUnits[n].typeId].hp
               /\ ecoOut.newUnits[n].isAlive
               /\ ecoOut.newUnits[n].hasMoved
               /\ ecoOut.newUnits[n].hasActed
          /\ Len(ecoOut.newUnits)
               <= Cardinality({ i \in Indexes(units) :
                                  units[i].isAlive /\ UNIT_TYPES[units[i].typeId].canReproduce }))
  /\ [][(ecoOut'.called /\ ecoOut'.op = "processReproduction") => units' = units]_vars

\* of a dead and a living peasant on different tiles, one unit is born
C15_Witness ==
  /\ EcoCalled("processReproduction")
  /\ Len(units) = 2
  /\ units[1].typeId = "peasant" /\ ~units[1].isAlive
  /\ units[2].typeId = "peasant" /\ units[2].isAlive
  /\ Len(ecoOut.newUnits) = 1
  /\ ecoOut.newUnits[1].x = units[2].x

\* ------------------------------------------------------------------------
\* Call specification: one resolveTurn call on a snapshot taken from a family
\* of games (turn counter and month length, diplomacy, a dead unit), with
\* action lists that mix valid and invalid moves; before the call,
\* resetUnitsForTurn may be called on the units, twice in a row
\* ------------------------------------------------------------------------

\* <<currentTurn, turnsPerMonth>>: the first turn of a game, turns that end
\* a month and turns that do not
CallGames == { <<0, 10>>, <<9, 10>>, <<10, 10>>, <<1, 2>>, <<2, 2>> }

\* no record, war recorded from either side, an alliance, a recorded neutrality
CallRelations ==
  { << >>,
    << [playerA |-> "p2", playerB |-> "p1", status |-> "enemy"] >>,
    << [playerA |-> "p1", playerB |-> "p2", status |-> "enemy"] >>,
    << [playerA |-> "p1", playerB |-> "p2", status |-> "allied"] >>,
    << [playerA |-> "p2", playerB |-> "p1", status |-> "neutral"] >> }

\* the first player's peasant: wounded, or dead with its flags still set
CallPeasants ==
  { MkUnit(IdPe, "peasant", "p1", 0, 0, 3, TRUE, FALSE, FALSE, 0),
    MkUnit(IdPe, "peasant", "p1", 0, 0, 0, FALSE, TRUE, TRUE, 0) }

\* the actions of the turn specification and a move of a unit nobody has
CallActions == TurnActions \cup { MoveAction("p1", <<"uuid", 9>>, <<1, 1>>) }

RECURSIVE CallActionLists(_)
CallActionLists(n) ==
  IF n = 0 THEN { << >> }
  ELSE LET shorter == CallActionLists(n - 1)
       IN shorter \cup { Append(l, a) : l \in { s \in shorter : Len(s) = n - 1 },
                                        a \in CallActions }

InitCall ==
  \E gm \in CallGames, rels \in CallRelations, pe \in CallPeasants :
    InitTurnOf([currentTurn |-> gm[1], turnsPerMonth |-> gm[2]], rels, pe)

\* unitManager.resetUnitsForTurn(units), the units being mutated in place
ResetUnitsForTurn ==
  /\ ~turnOut.called
  /\ resets < MaxResets
  /\ units' = resetUnitsForTurn(units)
  /\ resets' = resets + 1
  /\ UNCHANGED <<grid, pathVars, combatVars, game, players, buildings, settlements, relations,
                 turnIn, turnOut, replayOut, ecoVars, mgrVars, storeVars>>

NextCall ==
  \/ ResetUnitsForTurn
  \/ /\ ~turnOut.called
     /\ resets = 0
     /\ \E actions \in CallActionLists(MaxActions) : \E rnd \in Draws(actions) :
          ResolveTurn(actions, rnd)

SpecCall == InitCall /\ [][NextCall]_vars

\* ------------------------------------------------------------------------
\* Claims on single resolveTurn calls
\* ------------------------------------------------------------------------

\* the turn counter of the call is a positive multiple of the month length
PositiveMultiple(gm) ==
  gm.currentTurn > 0 /\ \E n \in 1..gm.currentTurn : n * gm.turnsPerMonth = gm.currentTurn
\* the messages of the call that surface a warning
WarningsSurfaced == { turnOut.messages[m] : m \in Indexes(turnOut.messages) }
                      \cap { <<"warning", n, <<k, a>>>> : n \in {"p1", "p2"},
                                                          k \in {"grain", "dricks"}, a \in 0..20 }

\* C16: the economy phase runs in a call exactly when the turn counter is a
\* positive multiple of turnsPerMonth.  When it runs, a report is computed for
\* every player, the player's pool becomes the pool plus the report's net
\* with no entry below 0, and each warning of the report becomes a message;
\* otherwise every pool is unchanged, no unit is born and no warning is
\* surfaced.  With a month of 10 turns it runs at turn 10, not at 9 or 0
C16_MonthlyEconomy ==
  turnOut.called =>
    /\ IF PositiveMultiple(turnIn.game)
         THEN /\ Len(turnOut.reports) = Len(turnIn.players)
              /\ \A p \in Indexes(turnIn.players) :
                   /\ \A k \in ResourceKinds :
                        turnOut.updatedPlayers[p].resources[k]
                          = Max2(0, turnIn.players[p].resources[k]
                                      + turnOut.reports[p].netResources[k])
                   /\ \A w \in Indexes(turnOut.reports[p].warnings) :
                        <<"warning", turnIn.players[p].name, turnOut.reports[p].warnings[w]>>
                          \in WarningsSurfaced
         ELSE /\ turnOut.reports = << >>
              /\ \A p \in Indexes(turnIn.players) :
                   turnOut.updatedPlayers[p].resources = turnIn.players[p].resources
              /\ turnOut.newUnits = << >>
              /\ WarningsSurfaced = {}
    /\ turnIn.game = [currentTurn |-> 10, turnsPerMonth |-> 10] => turnOut.reports # << >>
    /\ (turnIn.game.turnsPerMonth = 10 /\ turnIn.game.currentTurn \in {0, 9})
         => /\ turnOut.reports = << >>
            /\ turnOut.newUnits = << >>

\* at turn 10 of a game with months of 10 turns a pool changed, a unit was
\* born and a warning was surfaced
C16_Witness ==
  /\ turnOut.called
  /\ turnIn.game = [currentTurn |-> 10, turnsPerMonth |-> 10]
  /\ \E p \in Indexes(turnIn.players) :
       turnOut.updatedPlayers[p].resources # turnIn.players[p].resources
  /\ turnOut.newUnits # << >>
  /\ WarningsSurfaced # {}

\* the k-th action of the call is a move of the unit of index i that names a
\* living unit and is submitted by its owner
ValidMove(k, i) ==
  /\ turnIn.actions[k].type = "move"
  /\ turnIn.actions[k].unitId = turnIn.units[i].id
  /\ turnIn.units[i].isAlive
  /\ turnIn.actions[k].playerId = turnIn.units[i].ownerId
ValidMoves(i) == { k \in Indexes(turnIn.actions) : ValidMove(k, i) }
\* the largest element of a non-empty set of numbers
SetMax(S) == CHOOSE m \in S : \A n \in S : n <= m

\* C17: after a call every unit stands where the last valid move of the list
\* for it leads (a move that names it while it lives, submitted by its owner),
\* and where it stood when no such move was submitted: moves of a unit that
\* does not exist, is dead or belongs to another player change nothing,
\* wherever they stand in the list
C17_MovesApplied ==
  turnOut.called =>
    /\ Len(turnOut.updatedUnits) = Len(turnIn.units)
    /\ \A i \in Indexes(turnIn.units) :
         IF ValidMoves(i) = {}
           THEN /\ turnOut.updatedUnits[i].x = turnIn.units[i].x
                /\ turnOut.updatedUnits[i].y = turnIn.units[i].y
           ELSE /\ turnOut.updatedUnits[i].x = turnIn.actions[SetMax(ValidMoves(i))].targetX
                /\ turnOut.updatedUnits[i].y = turnIn.actions[SetMax(ValidMoves(i))].targetY

\* a move of a unit by a player who does not own it, then a valid move of
\* another unit: the first unit stays, the second one moves
C17_Witness ==
  /\ turnOut.called
  /\ Len(turnIn.actions) = 2
  /\ turnIn.actions[1].type = "move" /\ turnIn.actions[2].type = "move"
  /\ \E i \in Indexes(turnIn.units), j \in Indexes(turnIn.units) :
       /\ turnIn.actions[1].unitId = turnIn.units[i].id
       /\ turnIn.units[i].isAlive
       /\ turnIn.actions[1].playerId # turnIn.units[i].ownerId
       /\ turnOut.updatedUnits[i].x = turnIn.units[i].x
       /\ turnOut.updatedUnits[i].y = turnIn.units[i].y
       /\ ValidMove(2, j)
       /\ <<turnOut.updatedUnits[j].x, turnOut.updatedUnits[j].y>>
            = <<turnIn.actions[2].targetX, turnIn.actions[2].targetY>>
       /\ <<turnIn.units[j].x, turnIn.units[j].y>>
            # <<turnIn.actions[2].targetX, turnIn.actions[2].targetY>>

\* the diplomacy records hold an enemy relation between the two players
AtWar(a, b) ==
  \E r \in Indexes(relations) :
    {relations[r].playerA, relations[r].playerB} = {a, b} /\ relations[r].status = "enemy"
\* the combat logs of the call that name the units of indexes i and j
LogsOf(i, j) ==
  { k \in Indexes(turnOut.combatLogs) :
      {turnOut.combatLogs[k].attackerUnitId, turnOut.combatLogs[k].defenderUnitId}
        = {turnIn.units[i].id, turnIn.units[j].id} }
\* the units of indexes i and j must meet in the call: both alive, of
\* different owners at war, on existing tiles at distance at most 1 once the
\* moves are applied
MustMeet(i, j) ==
  /\ turnIn.units[i].isAlive /\ turnIn.units[j].isAlive
  /\ turnIn.units[i].ownerId # turnIn.units[j].ownerId
  /\ AtWar(turnIn.units[i].ownerId, turnIn.units[j].ownerId)
  /\ Chebyshev(turnOut.updatedUnits[i], turnOut.updatedUnits[j]) <= 1
  /\ getTile(grid, turnOut.updatedUnits[i].x, turnOut.updatedUnits[i].y) # NoTile
  /\ getTile(grid, turnOut.updatedUnits[j].x, turnOut.updatedUnits[j].y) # NoTile

\* C18: a call resolves exactly one encounter for every pair of units that,
\* once the moves are applied, are alive, owned by different players at war,
\* within distance 1 of each other and on existing tiles, and none for any
\* other pair: no pair has two combat logs, and units of allied players, of
\* players recorded as neutral or of players without record do not fight
C18_EncountersOncePerPair ==
  turnOut.called =>
    /\ \A i \in Indexes(turnIn.units), j \in Indexes(turnIn.units) :
         i < j => Cardinality(LogsOf(i, j)) = (IF MustMeet(i, j) THEN 1 ELSE 0)
    /\ \A k \in Indexes(turnOut.combatLogs) :
         \E i \in Indexes(turnIn.units), j \in Indexes(turnIn.units) : i < j /\ k \in LogsOf(i, j)

\* one unit moved next to two enemy units and met each of them once, the war
\* being recorded from the other player's side
C18_Witness ==
  /\ turnOut.called
  /\ relations = << [playerA |-> "p1", playerB |-> "p2", status |-> "enemy"] >>
  /\ Len(turnOut.combatLogs) = 2
  /\ \E i \in Indexes(turnIn.units), j \in Indexes(turnIn.units), k \in Indexes(turnIn.units) :
       /\ j < k
       /\ Cardinality(LogsOf(i, j)) = 1
       /\ Cardinality(LogsOf(i, k)) = 1
       /\ Chebyshev(turnIn.units[i], turnIn.units[j]) > 1

\* C20: a call of resetUnitsForTurn clears hasMoved and hasActed of every
\* living unit and leaves the dead units and every other field as they were; a
\* second call in a row changes nothing; after every resolveTurn call the
\* living units of updatedUnits have both flags cleared and no player has
\* turnPlayed set
C20_ResetFlags ==
  /\ [][resets' = resets + 1 =>
          /\ Len(units') = Len(units)
          /\ \A i \in Indexes(units) :
               units'[i] = (IF units[i].isAlive
                              THEN [units[i] EXCEPT !.hasMoved = FALSE, !.hasActed = FALSE]
                              ELSE units[i])
          /\ resets >= 1 => units' = units]_vars
  /\ [](turnOut.called =>
          /\ \A i \in Indexes(turnOut.updatedUnits) :
               turnOut.updatedUnits[i].isAlive
                 => ~turnOut.updatedUnits[i].hasMoved /\ ~turnOut.updatedUnits[i].hasActed
          /\ \A p \in Indexes(turnOut.updatedPlayers) : ~turnOut.updatedPlayers[p].turnPlayed)

\* resetUnitsForTurn was called twice in a row on units of which one is dead
\* with its flags set, and living ones that had moved or acted
C20_Witness ==
  /\ resets = 2
  /\ \E i \in Indexes(units) : ~units[i].isAlive /\ units[i].hasMoved /\ units[i].hasActed
  /\ \E i \in Indexes(units) : units[i].isAlive /\ ~units[i].hasMoved /\ ~units[i].hasActed

\* ------------------------------------------------------------------------
\* Build specification: resolveTurn is called turn after turn on a game at
\* peace, the players submitting build actions; each call is made on the
\* collections the call before returned
\* ------------------------------------------------------------------------

\* a build that sacrifices a unit and one that does not
BuildActions ==
  { BuildAction("p1", "house", <<0, 0>>, IdPe),
    BuildAction("p2", "watchtower", <<2, 0>>, NoId) }

RECURSIVE BuildActionLists(_)
BuildActionLists(n) ==
  IF n = 0 THEN { << >> }
  ELSE LET shorter == BuildActionLists(n - 1)
       IN shorter \cup { Append(l, a) : l \in { s \in shorter : Len(s) = n - 1 },
                                        a \in BuildActions }

InitBuild ==
  InitTurnOf([currentTurn |-> 1, turnsPerMonth |-> 2], << >>,
             MkUnit(IdPe, "peasant", "p1", 0, 0, 3, TRUE, FALSE, FALSE, 0))

NextBuild ==
  /\ game.currentTurn < MaxBuildTurn
  /\ \E actions \in BuildActionLists(MaxActions) : \E rnd \in Draws(actions) :
       ResolveTurn(actions, rnd)

SpecBuild == InitBuild /\ [][NextBuild]_vars

\* the build actions of the call
BuildsOfCall == SelectSeq(turnIn.actions, LAMBDA a : a.type = "build")
\* the buildings the call completed
CompletedInCall ==
  { b \in Indexes(turnIn.buildings) :
      ~turnIn.buildings[b].isConstructed /\ turnOut.updatedBuildings[b].isConstructed }
\* the construction messages of the call
BuiltMessages == { m \in Indexes(turnOut.messages) : turnOut.messages[m] = <<"built">> }

\* C19: a call appends one building for each build action, unconstructed and
\* with the countdown 2 already ticked to 1; it lowers the countdown of every
\* other unconstructed building by 1, marks the building constructed exactly
\* when the countdown reaches 0 and emits one construction message for each
\* building it completes; a constructed building is returned as it was; no
\* countdown is negative.  So a building made at turn t has the countdown
\* max(0, 2 - age) at age turns and is constructed from age 2 on
C19_ConstructionLifecycle ==
  /\ \A b \in Indexes(buildings) :
       /\ buildings[b].turnsRemaining >= 0
       /\ buildings[b].createdTurn >= 1 =>
            /\ buildings[b].turnsRemaining
                 = Max2(0, 2 - (game.currentTurn - buildings[b].createdTurn))
            /\ buildings[b].isConstructed <=> (game.currentTurn - buildings[b].createdTurn >= 2)
  /\ turnOut.called =>
       /\ Len(turnOut.updatedBuildings) = Len(turnIn.buildings) + Len(BuildsOfCall)
       /\ \A b \in Indexes(turnIn.buildings) :
            IF turnIn.buildings[b].isConstructed
              THEN turnOut.updatedBuildings[b] = turnIn.buildings[b]
              ELSE /\ turnOut.updatedBuildings[b].turnsRemaining
                        = turnIn.buildings[b].turnsRemaining - 1
                   /\ turnOut.updatedBuildings[b].isConstructed
                        <=> (turnOut.updatedBuildings[b].turnsRemaining = 0)
       /\ \A n \in Indexes(BuildsOfCall) :
            /\ ~turnOut.updatedBuildings[Len(turnIn.buildings) + n].isConstructed
            /\ turnOut.updatedBuildings[Len(turnIn.buildings) + n].turnsRemaining = 1
            /\ turnOut.updatedBuildings[Len(turnIn.buildings) + n].createdTurn
                 = turnIn.game.currentTurn
       /\ Cardinality(BuiltMessages) = Cardinality(CompletedInCall)

\* a building made by a build action at turn 1 was completed by the call of
\* turn 2 and returned unchanged, without message, by the call of turn 3
C19_Witness ==
  /\ turnOut.called
  /\ turnIn.game.currentTurn = 3
  /\ \E b \in Indexes(turnIn.buildings) :
       /\ turnIn.buildings[b].createdTurn = 1
       /\ turnIn.buildings[b].isConstructed
       /\ turnOut.updatedBuildings[b] = turnIn.buildings[b]
       /\ buildings[b].turnsRemaining = 0
  /\ BuiltMessages = {}

\* ------------------------------------------------------------------------
\* Unit manager: movement legality
\* ------------------------------------------------------------------------

\* UnitManager.getRelation: a player is allied with itself, then the first
\* record naming the two players in either order, neutral without one
managerGetRelation(playerA, playerB, rels) ==
  IF playerA = playerB THEN "allied" ELSE getRelation(playerA, playerB, rels)

\* allUnits.filter(u => u.isAlive && u.x === tx && u.y === ty && u.id !== unit.id)
unitsOnTile(unit, allUnits, tx, ty) ==
  SelectSeq(allUnits, LAMBDA u : u.isAlive /\ u.x = tx /\ u.y = ty /\ u.id # unit.id)

allAllied(unit, onTile, rels) ==
  \A i \in 1..Len(onTile) :
    \/ onTile[i].ownerId = unit.ownerId
    \/ managerGetRelation(unit.ownerId, onTile[i].ownerId, rels) = "allied"

\* the test of the loop body on the occupants of one reachable tile, with the
\* given limit on the number of occupants
keepsTileUpTo(unit, onTile, rels, limit) ==
  IF Len(onTile) = 0 THEN TRUE ELSE allAllied(unit, onTile, rels) /\ Len(onTile) < limit

\* a tile already holding two allied units is kept
filteredThreeDeep(unit, allUnits, rels, reachable) ==
  [c \in { k \in DOMAIN reachable :
             /\ keepsTileUpTo(unit, unitsOnTile(unit, allUnits, k[1], k[2]), rels, 3)
             /\ k # <<unit.x, unit.y>> } |-> reachable[c]]

\* the Map filtered: the keys "x,y" of reachable are parsed back to the
\* integers they were printed from, the entry of the unit's own tile is
\* deleted at the end
filtered(unit, allUnits, rels, reachable) ==
  [c \in { k \in DOMAIN reachable :
             /\ keepsTileUpTo(unit, unitsOnTile(unit, allUnits, k[1], k[2]), rels, 2)
             /\ k # <<unit.x, unit.y>> } |-> reachable[c]]

\* new Map()
EmptyMap == [c \in {} |-> 0]

getValidMoves(unit, g, allUnits, rels) ==
  IF unit.hasMoved THEN EmptyMap
  ELSE IF unit.typeId \notin DOMAIN UNIT_TYPES THEN EmptyMap
  ELSE filtered(unit, allUnits, rels,
                getReachableTiles(g, unit.x, unit.y, UNIT_TYPES[unit.typeId].movement,
                                  UNIT_TYPES[unit.typeId].category = "naval"))

\* ------------------------------------------------------------------------
\* Movement specification: getValidMoves is called for the units of a
\* position drawn on a map of land and sea
\* ------------------------------------------------------------------------

MoveGrid ==
  [width |-> W, height |-> H,
   tiles |-> [c \in Cells(W, H) |->
                CASE c = <<2, 0>> -> MkTile("mer", FALSE, FALSE, "none")
                  [] c = <<0, 1>> -> MkTile("hefo", FALSE, FALSE, "none")
                  [] c = <<1, 1>> -> MkTile("lifo", FALSE, FALSE, "none")
                  [] c = <<2, 1>> -> MkTile("mer", FALSE, FALSE, "none")
                  [] c = <<1, 2>> -> MkTile("moun", FALSE, FALSE, "none")
                  [] c = <<2, 2>> -> MkTile("reef", FALSE, FALSE, "none")
                  [] OTHER -> Grass]]

\* the unit asked about first: a land unit in the corner or a boat at sea,
\* of a type of the table or of a type the table does not have
MoverKinds == {"peasant", "militia", "boat", "ghost"}
MoverAt(kind) == IF kind = "boat" THEN <<2, 0>> ELSE <<0, 0>>
\* where the two other units stand: next to the mover, on the forest, at sea
\* or on the mover's own tile
OtherCells == { <<1, 0>>, <<1, 1>>, <<2, 1>>, <<0, 0>> }
MoveRelations ==
  { << >>,
    << [playerA |-> "p1", playerB |-> "p2", status |-> "allied"] >>,
    << [playerA |-> "p2", playerB |-> "p1", status |-> "allied"] >>,
    << [playerA |-> "p2", playerB |-> "p1", status |-> "enemy"] >> }

MovePlayers ==
  << [id |-> "p1", name |-> "p1", factionId |-> "yanovie",
      resources |-> [emptyResources EXCEPT !["dricks"] = 5, !["grain"] = 5],
      turnPlayed |-> TRUE],
     [id |-> "p2", name |-> "p2", factionId |-> "bansag",
      resources |-> [emptyResources EXCEPT !["dricks"] = 5, !["grain"] = 5],
      turnPlayed |-> TRUE] >>

InitMovesOf(kinds, cells, owners, lives) ==
  /\ grid = MoveGrid
  /\ IdlePath
  /\ IdleCombat
  /\ game = [currentTurn |-> 1, turnsPerMonth |-> 2]
  /\ players = MovePlayers
  /\ \E kind \in kinds, moved \in BOOLEAN, c2 \in cells, c3 \in cells,
        o2 \in owners, o3 \in owners, a2 \in lives, a3 \in lives :
       units = << MkUnit(<<"uuid", 1>>, kind, "p1", MoverAt(kind)[1], MoverAt(kind)[2], 5,
                         TRUE, moved, FALSE, 0),
                  MkUnit(<<"uuid", 2>>, "militia", o2, c2[1], c2[2], IF a2 THEN 15 ELSE 0,
                         a2, FALSE, FALSE, 0),
                  MkUnit(<<"uuid", 3>>, "militia", o3, c3[1], c3[2], IF a3 THEN 15 ELSE 0,
                         a3, FALSE, FALSE, 0) >>
  /\ buildings = << >> /\ settlements = << >>
  /\ relations \in MoveRelations
  /\ turnIn = NoCall /\ turnOut = NoCall /\ replayOut = NoCall /\ resets = 0
  /\ ecoOut = NoCall /\ months = 0
  /\ IdleMgr
  /\ IdleStore

InitMoves == InitMovesOf(MoverKinds, OtherCells, {"p1", "p2"}, BOOLEAN)

\* unitManager.getValidMoves(units[i], grid, units, relations)
GetValidMoves(i) ==
  /\ mgrOut' = [called |-> TRUE, op |-> "getValidMoves", unit |-> i,
                moves |-> getValidMoves(units[i], grid, units, relations)]
  /\ UNCHANGED <<grid, pathVars, combatVars, turnVars, ecoVars, armies, made, calls, storeVars>>

NextMoves == \E i \in 1..Len(units) : GetValidMoves(i)

SpecMoves == InitMoves /\ [][NextMoves]_vars

MgrCalled(op) == mgrOut.called /\ mgrOut.op = op

\* the living units other than u that stand on the cell
OthersOn(u, cell) ==
  { i \in Indexes(units) : units[i].isAlive /\ units[i].id # u.id
                           /\ <<units[i].x, units[i].y>> = cell }
\* the two players are the same one or a diplomacy record names them allied
Friendly(a, b) ==
  \/ a = b
  \/ \E r \in Indexes(relations) :
       /\ {relations[r].playerA, relations[r].playerB} = {a, b}
       /\ relations[r].status = "allied"
\* what the pathfinder reaches from the unit's tile under its movement stat
\* and domain
ReachOf(u) ==
  getReachableTiles(grid, u.x, u.y, UNIT_TYPES[u.typeId].movement,
                    UNIT_TYPES[u.typeId].category = "naval")
\* the cells a unit may enter: reached, not its own, holding no living unit
\* of a player that is not friendly and fewer than two living units
OpenCells(u) ==
  { c \in DOMAIN ReachOf(u) :
      /\ c # <<u.x, u.y>>
      /\ \A i \in OthersOn(u, c) : Friendly(u.ownerId, units[i].ownerId)
      /\ Cardinality(OthersOn(u, c)) < 2 }

\* C21: getValidMoves returns an empty map for a unit that has moved;
\* for any other unit of a known type it returns exactly the entries of
\* getReachableTiles (same costs) whose tile is not the unit's own, holds no
\* living other unit of a player that is neither the owner nor allied, and
\* holds fewer than two living other units; the call modifies no unit.
C21_ValidMoves ==
  /\ [](MgrCalled("getValidMoves") =>
          LET u == units[mgrOut.unit]
          IN IF u.hasMoved THEN mgrOut.moves = EmptyMap
             ELSE u.typeId \in UnitTypeIds =>
                    /\ DOMAIN mgrOut.moves = OpenCells(u)
                    /\ \A c \in OpenCells(u) : mgrOut.moves[c] = ReachOf(u)[c])
  /\ [][UNCHANGED units]_vars

\* a militia that has not moved is refused the tile where two friendly units
\* stand and its own tile, and is offered another tile at the pathfinder's cost
C21_Witness ==
  /\ MgrCalled("getValidMoves")
  /\ LET u == units[mgrOut.unit]
     IN /\ ~u.hasMoved /\ u.typeId = "militia"
        /\ \E c \in DOMAIN ReachOf(u) :
             /\ Cardinality(OthersOn(u, c)) = 2
             /\ \A i \in OthersOn(u, c) : Friendly(u.ownerId, units[i].ownerId)
             /\ c \notin DOMAIN mgrOut.moves
        /\ \E c \in DOMAIN mgrOut.moves : mgrOut.moves[c] = 3

\* a call ended in an error: it returned no value but the error raised
Failed(out) == "error" \in DOMAIN out

\* C28: an operation that meets a unit type id without definition ends in an
\* error instead of returning a normal result: here getValidMoves asked
\* about a unit, not yet moved, whose type the table does not have.
C28_UnknownTypeFails ==
  (/\ MgrCalled("getValidMoves")
   /\ ~units[mgrOut.unit].hasMoved
   /\ units[mgrOut.unit].typeId \notin DOMAIN UNIT_TYPES) => Failed(mgrOut)

\* ------------------------------------------------------------------------
\* Stacking specification: resolveTurn is called once with move actions that
\* getValidMoves offers on the snapshot
\* ------------------------------------------------------------------------

StackLimit == 2

\* the living units standing on the cell
LivingOn(us, cell) == { i \in Indexes(us) : us[i].isAlive /\ <<us[i].x, us[i].y>> = cell }
PositionsOf(us) == { <<us[i].x, us[i].y>> : i \in Indexes(us) }
WithinStackLimit(us) == \A c \in PositionsOf(us) : Cardinality(LivingOn(us, c)) <= StackLimit

\* three living units of which no more than two share a tile
InitStack ==
  /\ InitMovesOf({"peasant", "militia"}, { <<1, 0>>, <<1, 1>> }, {"p1", "p2"}, {TRUE})
  /\ WithinStackLimit(units)

\* the move actions the players can submit after asking getValidMoves
OfferedMoves ==
  UNION { { MoveAction(units[i].ownerId, units[i].id, c) :
              c \in DOMAIN getValidMoves(units[i], grid, units, relations) } :
          i \in Indexes(units) }

OfferedLists == UNION { [1..n -> OfferedMoves] : n \in 0..MaxActions }

NextStack ==
  /\ ~turnOut.called
  /\ \E actions \in OfferedLists : \E rnd \in Draws(actions) : ResolveTurn(actions, rnd)

SpecStack == InitStack /\ [][NextStack]_vars

\* C22: when no tile holds more than two living units before resolveTurn and
\* every move action targets a tile getValidMoves returned for its unit on
\* the snapshot, no tile holds more than two living units after the call.
C22_StackingLimit ==
  (turnOut.called /\ WithinStackLimit(turnIn.units)) => WithinStackLimit(units)

\* ------------------------------------------------------------------------
\* Unit manager: recruitment
\* ------------------------------------------------------------------------

\* pool[k] || 0: a resource the pool does not list counts for nothing
held(pool, k) == IF k \in DOMAIN pool THEN pool[k] ELSE 0

\* hasResources(pool, cost), cost listing the entries of the ResourceMap
hasResources(pool, cost) == \A i \in 1..Len(cost) : ~(held(pool, cost[i][1]) < cost[i][2])

\* buildings.some(b => ... && b.x === x && b.y === y)
hasBuilding(required, playerId, x, y, bs) ==
  \E i \in 1..Len(bs) :
    /\ bs[i].typeId = required /\ bs[i].isConstructed /\ bs[i].ownerId = playerId
    /\ bs[i].x = x /\ bs[i].y = y

\* buildings.some(b => ... && Math.abs(b.x - x) <= 1 && Math.abs(b.y - y) <= 1)
nearbyBuilding(required, playerId, x, y, bs) ==
  \E i \in 1..Len(bs) :
    /\ bs[i].typeId = required /\ bs[i].isConstructed /\ bs[i].ownerId = playerId
    /\ Abs(bs[i].x - x) <= 1 /\ Abs(bs[i].y - y) <= 1

\* the reasons of a refusal; the last one is the text "Necessite: " followed
\* by the name of the building type, or by its id when the type has no
\* definition
ReasonUnknownType == <<"Type d'unite inconnu">>
ReasonResources == <<"Ressources insuffisantes">>
ReasonRequires(required) ==
  <<"Necessite: ",
    IF required \in DOMAIN BUILDING_TYPES THEN BUILDING_TYPES[required].name ELSE required>>

Refused(reason) == [canRecruit |-> FALSE, reason |-> reason]

\* the building is looked for before the pool
canRecruitBuildingFirst(unitTypeId, playerId, x, y, playerResources, bs) ==
  IF unitTypeId \notin DOMAIN UNIT_TYPES THEN Refused(ReasonUnknownType)
  ELSE IF /\ UNIT_TYPES[unitTypeId].requiredBuilding # ""
          /\ ~hasBuilding(UNIT_TYPES[unitTypeId].requiredBuilding, playerId, x, y, bs)
          /\ ~nearbyBuilding(UNIT_TYPES[unitTypeId].requiredBuilding, playerId, x, y, bs)
       THEN Refused(ReasonRequires(UNIT_TYPES[unitTypeId].requiredBuilding))
  ELSE IF ~hasResources(playerResources, UNIT_TYPES[unitTypeId].cost)
       THEN Refused(ReasonResources)
  ELSE [canRecruit |-> TRUE]

canRecruit(unitTypeId, playerId, x, y, playerResources, bs) ==
  IF unitTypeId \notin DOMAIN UNIT_TYPES THEN Refused(ReasonUnknownType)
  ELSE IF ~hasResources(playerResources, UNIT_TYPES[unitTypeId].cost)
       THEN Refused(ReasonResources)
  ELSE IF /\ UNIT_TYPES[unitTypeId].requiredBuilding # ""
          /\ ~hasBuilding(UNIT_TYPES[unitTypeId].requiredBuilding, playerId, x, y, bs)
          /\ ~nearbyBuilding(UNIT_TYPES[unitTypeId].requiredBuilding, playerId, x, y, bs)
       THEN Refused(ReasonRequires(UNIT_TYPES[unitTypeId].requiredBuilding))
  ELSE [canRecruit |-> TRUE]

\* ------------------------------------------------------------------------
\* Recruitment specification: canRecruit is called for a player whose pool
\* and whose surroundings are drawn
\* ------------------------------------------------------------------------

\* the tile the unit is to be recruited on
RecruitAt == <<1, 1>>

\* pools: empty; the militia's cost exactly; one drick or one grain short of
\* it; the archer's cost exactly, wood included; the boat's cost
RecruitPools ==
  { emptyResources,
    [emptyResources EXCEPT !["dricks"] = 20, !["grain"] = 5],
    [emptyResources EXCEPT !["dricks"] = 19, !["grain"] = 5],
    [emptyResources EXCEPT !["dricks"] = 40, !["grain"] = 4],
    [emptyResources EXCEPT !["dricks"] = 35, !["grain"] = 5] @@ ("wood" :> 5),
    [emptyResources EXCEPT !["dricks"] = 30] @@ ("wood" :> 10) }

RecruitBuilding(n, typeId, ownerId, at, isConstructed) ==
  [id |-> <<"bldg", n, 0>>, typeId |-> typeId, ownerId |-> ownerId, x |-> at[1], y |-> at[2],
   isConstructed |-> isConstructed, turnsRemaining |-> IF isConstructed THEN 0 ELSE 1,
   createdTurn |-> 0]

\* barracks on the tile, one tile away diagonally, two tiles away, under
\* construction on the tile, a rival's on the tile; a house on the tile
RecruitBuildings ==
  { RecruitBuilding(1, "barracks", "p1", <<1, 1>>, TRUE),
    RecruitBuilding(2, "barracks", "p1", <<2, 0>>, TRUE),
    RecruitBuilding(3, "barracks", "p1", <<3, 1>>, TRUE),
    RecruitBuilding(4, "barracks", "p1", <<1, 1>>, FALSE),
    RecruitBuilding(5, "barracks", "p2", <<1, 1>>, TRUE),
    RecruitBuilding(6, "house", "p1", <<1, 1>>, TRUE) }

RecruitBuildingLists == UNION { [1..n -> RecruitBuildings] : n \in 0..2 }

RecruitKinds == {"peasant", "militia", "archer", "boat", "ghost"}

InitRecruit ==
  /\ grid = MoveGrid
  /\ IdlePath
  /\ IdleCombat
  /\ game = [currentTurn |-> 1, turnsPerMonth |-> 2]
  /\ \E pool \in RecruitPools :
       players = << [id |-> "p1", name |-> "p1", factionId |-> "yanovie", resources |-> pool,
                     turnPlayed |-> FALSE] >>
  /\ units = << >>
  /\ buildings \in RecruitBuildingLists
  /\ settlements = << >>
  /\ relations = << >>
  /\ turnIn = NoCall /\ turnOut = NoCall /\ replayOut = NoCall /\ resets = 0
  /\ ecoOut = NoCall /\ months = 0
  /\ IdleMgr
  /\ IdleStore

\* unitManager.canRecruit(unitTypeId, player.id, x, y, player.resources, buildings)
CanRecruit(unitTypeId) ==
  /\ mgrOut' = [called |-> TRUE, op |-> "canRecruit", unitTypeId |-> unitTypeId,
                playerId |-> players[1].id, x |-> RecruitAt[1], y |-> RecruitAt[2],
                result |-> canRecruit(unitTypeId, players[1].id, RecruitAt[1], RecruitAt[2],
                                      players[1].resources, buildings)]
  /\ UNCHANGED <<grid, pathVars, combatVars, turnVars, ecoVars, armies, made, calls, storeVars>>

NextRecruit == \E unitTypeId \in RecruitKinds : CanRecruit(unitTypeId)

SpecRecruit == InitRecruit /\ [][NextRecruit]_vars

\* the pool holds less than the cost in some resource
CannotAfford(pool, typeId) ==
  \E i \in Indexes(UNIT_TYPES[typeId].cost) :
    LET k == UNIT_TYPES[typeId].cost[i][1]
    IN (IF k \in DOMAIN pool THEN pool[k] ELSE 0) < UNIT_TYPES[typeId].cost[i][2]
\* a constructed building of the type, owned by the player, stands on the
\* target or within Chebyshev distance 1 of it
BuildingInReach(typeId, playerId, target) ==
  \E b \in Indexes(buildings) :
    /\ buildings[b].typeId = typeId /\ buildings[b].isConstructed
    /\ buildings[b].ownerId = playerId
    /\ Chebyshev(buildings[b], target) <= 1
\* the name under which the table knows the building
BuildingName(typeId) ==
  IF typeId \in BuildingTypeIds THEN BUILDING_TYPES[typeId].name ELSE typeId

\* C23: canRecruit refuses with the insufficient-resources reason whenever
\* the pool holds less than the cost in some resource, whatever the
\* buildings; otherwise, for a type with a required building, it accepts
\* exactly when a constructed building of that type owned by the recruiting
\* player stands on the target or within Chebyshev distance 1, and else
\* refuses with a reason naming the building; it never modifies the pool or
\* the buildings.
C23_CanRecruit ==
  /\ []((MgrCalled("canRecruit") /\ mgrOut.unitTypeId \in UnitTypeIds) =>
          LET t == UNIT_TYPES[mgrOut.unitTypeId]
              r == mgrOut.result
          IN IF CannotAfford(players[1].resources, mgrOut.unitTypeId)
               THEN r = [canRecruit |-> FALSE, reason |-> <<"Ressources insuffisantes">>]
             ELSE IF t.requiredBuilding = "" THEN r.canRecruit
             ELSE /\ r.canRecruit <=> BuildingInReach(t.requiredBuilding, mgrOut.playerId, mgrOut)
                  /\ ~r.canRecruit =>
                       /\ Len(r.reason) = 2
                       /\ r.reason[2] = BuildingName(t.requiredBuilding))
  /\ [][UNCHANGED <<players, buildings>>]_vars

\* scenario D, asked by a player who cannot pay either: a militia needs the
\* barracks, none stands within distance 1, and the answer is about the pool
C23_Witness ==
  /\ MgrCalled("canRecruit") /\ mgrOut.unitTypeId = "militia"
  /\ CannotAfford(players[1].resources, "militia")
  /\ ~BuildingInReach("barracks", "p1", mgrOut)
  /\ Len(buildings) = 2
  /\ mgrOut.result.reason = <<"Ressources insuffisantes">>

\* ------------------------------------------------------------------------
\* Unit manager: armies
\* ------------------------------------------------------------------------

\* unit.armyId, an optional field: absent when undefined
armyIdOf(unit) == IF "armyId" \in DOMAIN unit THEN unit.armyId ELSE NoId
\* unit.armyId = id
setArmyId(unit, id) ==
  [f \in DOMAIN unit \cup {"armyId"} |-> IF f = "armyId" THEN id ELSE unit[f]]
\* unit.armyId = undefined
clearArmyId(unit) == [f \in DOMAIN unit \ {"armyId"} |-> unit[f]]

\* null
NoArmy == [id |-> NoId]

\* units.filter(u => unitIds.includes(u.id) && u.isAlive && u.ownerId === ownerId)
selectedUnits(ownerId, unitIds, us) ==
  SelectSeq(us, LAMBDA u : u.id \in unitIds /\ u.isAlive /\ u.ownerId = ownerId)

\* the army made of the selected units, id being the value of uuid(), and
\* the units once linked to it
createArmyOf(name, ownerId, sel, us, id) ==
  IF Len(sel) = 0 THEN [army |-> NoArmy, units |-> us]
  ELSE IF ~(\A i \in 1..Len(sel) : sel[i].x = sel[1].x /\ sel[i].y = sel[1].y)
    THEN [army |-> NoArmy, units |-> us]
  ELSE [army |-> [id |-> id, ownerId |-> ownerId, name |-> name,
                  unitIds |-> [i \in 1..Len(sel) |-> sel[i].id],
                  x |-> sel[1].x, y |-> sel[1].y],
        units |-> [k \in 1..Len(us) |->
                     IF \E i \in 1..Len(sel) : sel[i].id = us[k].id /\ sel[i] = us[k]
                       THEN setArmyId(us[k], id) ELSE us[k]]]

\* UnitManager.createArmy
createArmy(name, ownerId, unitIds, us, id) ==
  createArmyOf(name, ownerId, selectedUnits(ownerId, unitIds, us), us, id)

\* units.find(u => u.id === unitId): the index of the unit, 0 without one
findUnit(us, unitId) == FirstIndex(us, LAMBDA u : u.id = unitId)

\* the indexes of the units that the loop over army.unitIds finds
membersFound(army, us) ==
  { findUnit(us, army.unitIds[m]) : m \in 1..Len(army.unitIds) } \ {0}

\* UnitManager.moveArmy: the army and the units after the call
moveArmy(army, us, targetX, targetY) ==
  [army |-> [army EXCEPT !.x = targetX, !.y = targetY],
   units |-> [k \in 1..Len(us) |->
                IF k \in membersFound(army, us) /\ us[k].isAlive
                  THEN [us[k] EXCEPT !.x = targetX, !.y = targetY, !.hasMoved = TRUE]
                  ELSE us[k]]]

\* UnitManager.disbandArmy: the units after the call
disbandArmy(army, us) ==
  [k \in 1..Len(us) |-> IF k \in membersFound(army, us) THEN clearArmyId(us[k]) ELSE us[k]]

\* ------------------------------------------------------------------------
\* Army specification: armies are created from three units and disbanded,
\* the caller keeping the armies returned and dropping the disbanded ones
\* ------------------------------------------------------------------------

MaxArmies == 2
MaxCalls == 3

IdU1 == <<"uuid", 1>>
IdU2 == <<"uuid", 2>>
IdU3 == <<"uuid", 3>>
\* an id no unit has
IdGhost == <<"uuid", 9>>

\* the unitIds arguments
UnitIdLists == SUBSET {IdU1, IdU2, IdU3, IdGhost}

\* two units of p1, together or one tile apart, and a third unit on the
\* first one's tile, of p1 or p2, alive or dead
InitArmy ==
  /\ grid = MoveGrid
  /\ IdlePath
  /\ IdleCombat
  /\ game = [currentTurn |-> 1, turnsPerMonth |-> 2]
  /\ players = MovePlayers
  /\ \E x2 \in {0, 1}, o3 \in {"p1", "p2"}, a3 \in BOOLEAN :
       units = << MkUnit(IdU1, "militia", "p1", 0, 0, 15, TRUE, FALSE, FALSE, 0),
                  MkUnit(IdU2, "peasant", "p1", x2, 0, 10, TRUE, FALSE, FALSE, 0),
                  MkUnit(IdU3, "militia", o3, 0, 0, IF a3 THEN 15 ELSE 0, a3, FALSE, FALSE,
                         0) >>
  /\ buildings = << >> /\ settlements = << >>
  /\ relations = << >>
  /\ turnIn = NoCall /\ turnOut = NoCall /\ replayOut = NoCall /\ resets = 0
  /\ ecoOut = NoCall /\ months = 0
  /\ IdleMgr
  /\ IdleStore

\* unitManager.createArmy(name, ownerId, unitIds, units); the caller stores
\* the army when one is returned
CreateArmy(ownerId, unitIds) ==
  /\ made < MaxArmies
  /\ calls < MaxCalls
  /\ calls' = calls + 1
  /\ LET r == createArmy("army", ownerId, unitIds, units, <<"army", made + 1>>)
     IN /\ units' = r.units
        /\ armies' = IF r.army = NoArmy THEN armies ELSE Append(armies, r.army)
        /\ made' = IF r.army = NoArmy THEN made ELSE made + 1
        /\ mgrOut' = [called |-> TRUE, op |-> "createArmy", ownerId |-> ownerId,
                      unitIds |-> unitIds, army |-> r.army]
  /\ UNCHANGED <<grid, pathVars, combatVars, game, players, buildings, settlements, relations,
                 turnIn, turnOut, replayOut, resets, ecoVars, storeVars>>

\* unitManager.disbandArmy(army, units); the caller drops the army
DisbandArmy(a) ==
  /\ calls < MaxCalls
  /\ calls' = calls + 1
  /\ units' = disbandArmy(armies[a], units)
  /\ armies' = [k \in 1..(Len(armies) - 1) |-> IF k < a THEN armies[k] ELSE armies[k + 1]]
  /\ mgrOut' = [called |-> TRUE, op |-> "disbandArmy", army |-> armies[a]]
  /\ UNCHANGED <<grid, pathVars, combatVars, game, players, buildings, settlements, relations,
                 turnIn, turnOut, replayOut, resets, ecoVars, made, storeVars>>

NextArmy ==
  \/ \E ownerId \in {"p1", "p2"}, unitIds \in UnitIdLists : CreateArmy(ownerId, unitIds)
  \/ \E a \in 1..Len(armies) : DisbandArmy(a)

SpecArmy == InitArmy /\ [][NextArmy]_vars

\* the ids an army lists
MemberIds(army) == { army.unitIds[m] : m \in Indexes(army.unitIds) }
\* every named id denotes a unit of the list that is alive, owned by the
\* player and on the tile of all the other named units
AllNamedFit(ownerId, unitIds, us) ==
  /\ \A id \in unitIds :
       \E i \in Indexes(us) : us[i].id = id /\ us[i].isAlive /\ us[i].ownerId = ownerId
  /\ \A i, j \in Indexes(us) :
       (us[i].id \in unitIds /\ us[j].id \in unitIds) => (us[i].x = us[j].x /\ us[i].y = us[j].y)

\* C24: createArmy returns an army only if every named unit id denotes a
\* unit that is alive, owned by the requesting player and on the same tile as
\* all other named units; when it returns no army every unit keeps its
\* armyId; on success exactly the named units get the new army's id.
C24_CreateArmy ==
  [][(mgrOut'.called /\ mgrOut'.op = "createArmy") =>
       /\ mgrOut'.army # NoArmy => AllNamedFit(mgrOut'.ownerId, mgrOut'.unitIds, units)
       /\ mgrOut'.army = NoArmy =>
            \A i \in Indexes(units) : armyIdOf(units'[i]) = armyIdOf(units[i])
       /\ mgrOut'.army # NoArmy =>
            \A i \in Indexes(units) :
              IF units[i].id \in mgrOut'.unitIds
                THEN armyIdOf(units'[i]) = mgrOut'.army.id
                ELSE armyIdOf(units'[i]) = armyIdOf(units[i])]_vars

\* C26: under every sequence of createArmy and disbandArmy calls, a unit
\* refers to an army exactly when the army lists the unit, no unit id is
\* listed by two armies, and disbanding an army never clears the reference of
\* a unit that refers to another army.
C26_Association ==
  /\ [](/\ \A i \in Indexes(units), a \in Indexes(armies) :
             armyIdOf(units[i]) = armies[a].id <=> units[i].id \in MemberIds(armies[a])
        /\ \A a, b \in Indexes(armies) :
             a # b => MemberIds(armies[a]) \cap MemberIds(armies[b]) = {})
  /\ [][(mgrOut'.called /\ mgrOut'.op = "disbandArmy") =>
          \A i \in Indexes(units) :
            (armyIdOf(units[i]) # NoId /\ armyIdOf(units[i]) # mgrOut'.army.id)
              => armyIdOf(units'[i]) = armyIdOf(units[i])]_vars

\* ------------------------------------------------------------------------
\* March specification: armies are created, moved and disbanded while
\* single units are moved, directly or by the move actions of a turn
\* ------------------------------------------------------------------------

\* where a march or a move leads
MarchCells == { <<1, 0>>, <<1, 1>> }

\* unitManager.moveArmy(army, units, targetX, targetY)
MoveArmy(a, target) ==
  /\ calls < MaxCalls
  /\ calls' = calls + 1
  /\ LET r == moveArmy(armies[a], units, target[1], target[2])
     IN /\ units' = r.units
        /\ armies' = [armies EXCEPT ![a] = r.army]
  /\ mgrOut' = [called |-> TRUE, op |-> "moveArmy", army |-> armies[a]]
  /\ UNCHANGED <<grid, pathVars, combatVars, game, players, buildings, settlements, relations,
                 turnIn, turnOut, replayOut, resets, ecoVars, made, storeVars>>

\* unitManager.moveUnit(units[i], targetX, targetY)
MoveUnit(i, target) ==
  /\ calls < MaxCalls
  /\ calls' = calls + 1
  /\ units' = [units EXCEPT ![i] = moveUnit(units[i], target[1], target[2])]
  /\ mgrOut' = [called |-> TRUE, op |-> "moveUnit", unit |-> i]
  /\ UNCHANGED <<grid, pathVars, combatVars, game, players, buildings, settlements, relations,
                 turnIn, turnOut, replayOut, resets, ecoVars, armies, made, storeVars>>

\* the move actions of a turn: one action of a unit's owner
MarchActions ==
  { MoveAction(units[i].ownerId, units[i].id, c) : i \in Indexes(units), c \in MarchCells }
MarchLists == UNION { [1..n -> MarchActions] : n \in 0..1 }

NextMarch ==
  \/ \E unitIds \in UnitIdLists : CreateArmy("p1", unitIds)
  \/ \E a \in 1..Len(armies) : DisbandArmy(a)
  \/ \E a \in 1..Len(armies), target \in MarchCells : MoveArmy(a, target)
  \/ \E i \in 1..Len(units), target \in MarchCells : MoveUnit(i, target)
  \/ /\ ~turnOut.called
     /\ \E actions \in MarchLists : \E rnd \in Draws(actions) : ResolveTurn(actions, rnd)

SpecMarch == InitArmy /\ [][NextMarch]_vars

\* C25: after any sequence of createArmy, moveArmy, disbandArmy, moveUnit
\* and resolveTurn calls, every living member of every existing army stands
\* at the army's position.
C25_ArmyTogether ==
  \A a \in Indexes(armies), i \in Indexes(units) :
    (units[i].id \in MemberIds(armies[a]) /\ units[i].isAlive)
      => <<units[i].x, units[i].y>> = <<armies[a].x, armies[a].y>>

\* ------------------------------------------------------------------------
\* Combat manager: army against army
\* ------------------------------------------------------------------------

\* units.filter(u => u.isAlive), as the indexes of the kept units in order
aliveIndexes(us) ==
  LET RECURSIVE from(_)
      from(k) == IF k > Len(us) THEN << >>
                 ELSE IF us[k].isAlive THEN <<k>> \o from(k + 1) ELSE from(k + 1)
  IN from(1)

\* applyCombatResult on the two units and results.push(result)
armyEncounter(st, a, d, result) ==
  [attackerUnits |-> [st.attackerUnits EXCEPT
                        ![a] = applyCombatResult(st.attackerUnits[a], st.defenderUnits[d],
                                                 result).attacker],
   defenderUnits |-> [st.defenderUnits EXCEPT
                        ![d] = applyCombatResult(st.attackerUnits[a], st.defenderUnits[d],
                                                 result).defender],
   results |-> Append(st.results, result)]

\* the loop of resolveArmyCombat from its pass i (counted from 0):
\* aliveAttackers and aliveDefenders are the lists filtered before the loop;
\* with no defender i % 0 is NaN and the pass is skipped, as is the pass
\* whose defender is dead; the loop ends when no defender is left alive
RECURSIVE armyLoop(_, _, _, _, _, _, _, _)
armyPassOn(st, i, aliveAttackers, aliveDefenders, attackerTile, defenderTile, turn, rolls) ==
  IF \A k \in 1..Len(aliveDefenders) : ~st.defenderUnits[aliveDefenders[k]].isAlive
    THEN st
    ELSE armyLoop(st, i + 1, aliveAttackers, aliveDefenders, attackerTile, defenderTile, turn,
                  rolls)

armyPass(st, i, a, d, aliveAttackers, aliveDefenders, attackerTile, defenderTile, turn, rolls) ==
  IF ~st.defenderUnits[d].isAlive
    THEN armyLoop(st, i + 1, aliveAttackers, aliveDefenders, attackerTile, defenderTile, turn,
                  rolls)
    ELSE armyPassOn(armyEncounter(st, a, d,
                                  executeCombat(st.attackerUnits[a], st.defenderUnits[d],
                                                attackerTile, defenderTile, turn,
                                                rolls[i + 1][1], rolls[i + 1][2])),
                    i, aliveAttackers, aliveDefenders, attackerTile, defenderTile, turn, rolls)

armyLoop(st, i, aliveAttackers, aliveDefenders, attackerTile, defenderTile, turn, rolls) ==
  IF ~(i < Len(aliveAttackers)) THEN st
  ELSE IF Len(aliveDefenders) = 0
    THEN armyLoop(st, i + 1, aliveAttackers, aliveDefenders, attackerTile, defenderTile, turn,
                  rolls)
  ELSE armyPass(st, i, aliveAttackers[i + 1], aliveDefenders[(i % Len(aliveDefenders)) + 1],
                aliveAttackers, aliveDefenders, attackerTile, defenderTile, turn, rolls)

\* CombatManager.resolveArmyCombat: the results returned and the two arrays
\* of units after the call; rolls[i + 1] holds the two values of
\* Math.random() of pass i
resolveArmyCombat(attackerUnits, defenderUnits, attackerTile, defenderTile, turn, rolls) ==
  armyLoop([attackerUnits |-> attackerUnits, defenderUnits |-> defenderUnits, results |-> << >>],
           0, aliveIndexes(attackerUnits), aliveIndexes(defenderUnits), attackerTile,
           defenderTile, turn, rolls)

\* ------------------------------------------------------------------------
\* Army combat specification: three attackers meet up to three defenders
\* ------------------------------------------------------------------------

ArmySize == 3

\* a unit of an army: dead, at its last hit point or unhurt
ArmyUnitStates == { <<FALSE, 0>>, <<TRUE, 1>>, <<TRUE, 15>> }

ArmyUnit(side, ownerId, x, k, state) ==
  MkUnit(<<side, k>>, "militia", ownerId, x, 0, state[2], state[1], FALSE, FALSE, 0)

InitArmyCombat ==
  /\ grid = FilledGrid(2, 1, <<-1, -1>>)
  /\ IdlePath
  /\ IdleTurn
  /\ \E as \in [1..ArmySize -> { <<FALSE, 0>>, <<TRUE, 15>> }],
        ds \in UNION { [1..n -> ArmyUnitStates] : n \in 0..ArmySize } :
       combatIn = [attackerUnits |-> [k \in 1..ArmySize |-> ArmyUnit("att", "p1", 0, k, as[k])],
                   defenderUnits |-> [k \in 1..Len(ds) |-> ArmyUnit("def", "p2", 1, k, ds[k])],
                   attackerTile |-> TileAt(Grass, 0, 0), defenderTile |-> TileAt(Grass, 1, 0),
                   turn |-> 1]
  /\ combatOut = NoCombat

\* combatManager.resolveArmyCombat(attackerUnits, defenderUnits, attackerTile,
\* defenderTile, turn), the two arrays being mutated in place
ResolveArmyCombat(rolls) ==
  /\ ~combatOut.done
  /\ combatOut' = [done |-> TRUE] @@
                  resolveArmyCombat(combatIn.attackerUnits, combatIn.defenderUnits,
                                    combatIn.attackerTile, combatIn.defenderTile, combatIn.turn,
                                    rolls)
  /\ UNCHANGED <<grid, pathVars, combatIn, turnVars, ecoVars, mgrVars, storeVars>>

NextArmyCombat == \E rolls \in [1..ArmySize -> TurnRolls \X TurnRolls] : ResolveArmyCombat(rolls)

SpecArmyCombat == InitArmyCombat /\ [][NextArmyCombat]_vars

\* the attackers and the defenders alive when the call is made, in order
SurvivingAttackers == SelectSeq(combatIn.attackerUnits, LAMBDA u : u.isAlive)
SurvivingDefenders == SelectSeq(combatIn.defenderUnits, LAMBDA u : u.isAlive)
\* the encounters of the call, in order
ArmyLogs == [m \in Indexes(combatOut.results) |-> combatOut.results[m].log]
\* the encounters fought by the attackers before the k-th surviving one
LogsBefore(k) ==
  { m \in Indexes(ArmyLogs) :
      \E j \in 1..(k - 1) : ArmyLogs[m].attackerUnitId = SurvivingAttackers[j].id }
\* the defender was killed by one of the encounters
KilledIn(d, ms) ==
  \E m \in ms : ArmyLogs[m].defenderUnitId = d.id /\ ~ArmyLogs[m].defenderSurvived
\* the defenders still alive when the k-th surviving attacker has its turn
DefendersLeft(k) == SelectSeq(SurvivingDefenders, LAMBDA d : ~KilledIn(d, LogsBefore(k)))

\* C27: the i-th surviving attacker (counted from 0) meets the defender at
\* index i modulo the current number of surviving defenders; every surviving
\* attacker fights exactly one encounter while a defender is alive and none
\* once the last defender has died; no encounter involves a defender that is
\* already dead; each result is applied before the next encounter.
C27_RoundRobin ==
  combatOut.done =>
    /\ \A k \in Indexes(SurvivingAttackers) :
         LET mine == { m \in Indexes(ArmyLogs) :
                         ArmyLogs[m].attackerUnitId = SurvivingAttackers[k].id }
             left == DefendersLeft(k)
         IN IF Len(left) = 0 THEN mine = {}
            ELSE /\ Cardinality(mine) = 1
                 /\ \A m \in mine :
                      ArmyLogs[m].defenderUnitId = left[((k - 1) % Len(left)) + 1].id
    /\ \A m \in Indexes(ArmyLogs) :
         /\ \E d \in Indexes(SurvivingDefenders) :
              SurvivingDefenders[d].id = ArmyLogs[m].defenderUnitId
         /\ ~\E n \in 1..(m - 1) :
               /\ ArmyLogs[n].defenderUnitId = ArmyLogs[m].defenderUnitId
               /\ ~ArmyLogs[n].defenderSurvived
    /\ \A d \in Indexes(combatIn.defenderUnits) :
         combatOut.defenderUnits[d].isAlive
           <=> (combatIn.defenderUnits[d].isAlive
                /\ ~KilledIn(combatIn.defenderUnits[d], Indexes(ArmyLogs)))

\* ------------------------------------------------------------------------
\* Tile grid: shrinking
\* ------------------------------------------------------------------------

Directions == {"north", "south", "east", "west"}

\* the switch on the direction: the new size and the offset of the tiles
shrunkWidth(g, direction, amount) ==
  IF direction \in {"east", "west"} THEN g.width - amount ELSE g.width
shrunkHeight(g, direction, amount) ==
  IF direction \in {"north", "south"} THEN g.height - amount ELSE g.height
shrinkOffsetX(direction, amount) == IF direction = "west" THEN -amount ELSE 0
shrinkOffsetY(direction, amount) == IF direction = "north" THEN -amount ELSE 0

\* new TileGrid(newWidth, newHeight) receiving every tile of the grid whose
\* shifted coordinate lies inside it
shrunkGrid(g, newWidth, newHeight, offsetX, offsetY) ==
  [width |-> newWidth, height |-> newHeight,
   tiles |-> [c \in Cells(newWidth, newHeight) |-> getTile(g, c[1] - offsetX, c[2] - offsetY)]]

\* throw new Error('Cannot shrink map below 1x1')
ShrinkError == [error |-> "Cannot shrink map below 1x1"]

\* TileGrid.shrink: the error thrown or the grid returned
shrink(g, direction, amount) ==
  IF shrunkWidth(g, direction, amount) <= 0 \/ shrunkHeight(g, direction, amount) <= 0
    THEN ShrinkError
    ELSE [result |-> shrunkGrid(g, shrunkWidth(g, direction, amount),
                                shrunkHeight(g, direction, amount),
                                shrinkOffsetX(direction, amount),
                                shrinkOffsetY(direction, amount))]

\* ------------------------------------------------------------------------
\* Shrinking specification: a grid with at most one missing tile and one
\* forest is shrunk from one side
\* ------------------------------------------------------------------------

MaxShrink == 4

InitShrink ==
  /\ \E hole \in Cells(W, H) \cup { <<-1, -1>> }, wood \in Cells(W, H) :
       grid = [FilledGrid(W, H, hole) EXCEPT
                 !.tiles[wood] = IF wood = hole THEN @ ELSE MkTile("hefo", FALSE, FALSE, "p1")]
  /\ IdlePath
  /\ IdleCombat
  /\ IdleTurn

\* grid.shrink(direction, amount)
Shrink(direction, amount) ==
  /\ mgrOut' = [called |-> TRUE, op |-> "shrink", direction |-> direction, amount |-> amount]
                @@ shrink(grid, direction, amount)
  /\ UNCHANGED <<grid, pathVars, combatVars, turnVars, ecoVars, armies, made, calls, storeVars>>

NextShrink == \E direction \in Directions, amount \in 0..MaxShrink : Shrink(direction, amount)

SpecShrink == InitShrink /\ [][NextShrink]_vars

\* the amount leaves no column or no row
ShrinksAway(direction, amount) ==
  IF direction \in {"east", "west"} THEN grid.width - amount <= 0
                                    ELSE grid.height - amount <= 0

\* C29: shrinking by an amount that makes the width or the height zero or
\* negative is reported as a structured result (a success flag that is false
\* and a reason) without throwing; every other amount succeeds; the grid
\* shrunk is left unchanged.
C29_Shrink ==
  /\ [](MgrCalled("shrink") =>
          IF ShrinksAway(mgrOut.direction, mgrOut.amount)
            THEN /\ ~Failed(mgrOut)
                 /\ DOMAIN mgrOut.result = {"success", "reason"}
                 /\ ~mgrOut.result.success
            ELSE ~Failed(mgrOut))
  /\ [][UNCHANGED grid]_vars

\* ------------------------------------------------------------------------
\* Permanent mode helpers
\* ------------------------------------------------------------------------

\* a turn is taken from a player who has none
consumeTurnAtZero(player) ==
  IF player.turnsAccumulated < 0 THEN [returned |-> FALSE, player |-> player]
  ELSE [returned |-> TRUE, player |-> [player EXCEPT !.turnsAccumulated = @ - 1]]

\* TurnEngine.consumeTurn: the value returned and the player after the call
consumeTurn(player) ==
  IF player.turnsAccumulated <= 0 THEN [returned |-> FALSE, player |-> player]
  ELSE [returned |-> TRUE, player |-> [player EXCEPT !.turnsAccumulated = @ - 1]]

\* ------------------------------------------------------------------------
\* Permanent mode specification: turns are consumed from a player's store
\* ------------------------------------------------------------------------

MaxAccumulated == 3

InitPermanent ==
  /\ grid = FilledGrid(1, 1, <<-1, -1>>)
  /\ IdlePath
  /\ IdleCombat
  /\ game = [currentTurn |-> 1, turnsPerMonth |-> 2]
  /\ \E f \in FactionIds, pool \in EcoPools, played \in BOOLEAN, ready \in BOOLEAN,
        n \in -1..MaxAccumulated :
       players = << [id |-> "p1", name |-> "p1", factionId |-> f, resources |-> pool,
                     turnsAccumulated |-> n, turnPlayed |-> played, isReady |-> ready,
                     lastLoginAt |-> 0] >>
  /\ units = << >> /\ buildings = << >> /\ settlements = << >>
  /\ relations = << >>
  /\ turnIn = NoCall /\ turnOut = NoCall /\ replayOut = NoCall /\ resets = 0
  /\ ecoOut = NoCall /\ months = 0
  /\ IdleMgr
  /\ IdleStore

\* turnEngine.consumeTurn(player), the player being mutated in place; had is
\* the store the player had at the first call, successes the number of calls
\* that have returned true
ConsumeTurn ==
  /\ players' = [players EXCEPT ![1] = consumeTurn(players[1]).player]
  /\ mgrOut' = [called |-> TRUE, op |-> "consumeTurn",
                returned |-> consumeTurn(players[1]).returned,
                had |-> IF mgrOut.called THEN mgrOut.had ELSE players[1].turnsAccumulated,
                successes |-> (IF mgrOut.called THEN mgrOut.successes ELSE 0)
                              + (IF consumeTurn(players[1]).returned THEN 1 ELSE 0)]
  /\ UNCHANGED <<grid, pathVars, combatVars, game, units, buildings, settlements, relations,
                 turnIn, turnOut, replayOut, resets, ecoVars, armies, made, calls, storeVars>>

NextPermanent == ConsumeTurn

SpecPermanent == InitPermanent /\ [][NextPermanent]_vars

\* C30: consumeTurn returns false and leaves the player unchanged when
\* turnsAccumulated is zero or negative; otherwise it lowers turnsAccumulated
\* by exactly 1, changes no other field and returns true; k calls can only
\* have returned true for a player who had at least k accumulated turns.
C30_ConsumeTurn ==
  /\ [][(mgrOut'.called /\ mgrOut'.op = "consumeTurn") =>
          IF players[1].turnsAccumulated <= 0
            THEN ~mgrOut'.returned /\ players' = players
            ELSE /\ mgrOut'.returned
                 /\ players'[1].turnsAccumulated = players[1].turnsAccumulated - 1
                 /\ \A f \in DOMAIN players[1] \ {"turnsAccumulated"} :
                      players'[1][f] = players[1][f]]_vars
  /\ [](MgrCalled("consumeTurn") =>
          (mgrOut.successes = 0 \/ mgrOut.had >= mgrOut.successes))

\* the whole store of three turns has been consumed and one more call was
\* refused
C30_Witness ==
  /\ MgrCalled("consumeTurn")
  /\ mgrOut.had = MaxAccumulated /\ mgrOut.successes = MaxAccumulated
  /\ ~mgrOut.returned
  /\ players[1].turnsAccumulated = 0

\* ------------------------------------------------------------------------
\* Permanent mode: the accumulated turns of a login
\* ------------------------------------------------------------------------

\* 24 * 60 * 60 * 1000
ONE_DAY == 86400000
MaxStored == 10

\* Math.floor((now - player.lastLoginAt) / ONE_DAY)
daysSinceLogin(player, now) == (now - player.lastLoginAt) \div ONE_DAY

\* TurnEngine.calculateAccumulatedTurns
calculateAccumulatedTurns(player, now) ==
  Min2(player.turnsAccumulated + daysSinceLogin(player, now), MaxStored)

\* ------------------------------------------------------------------------
\* Login specification: the accumulated turns of a player are computed at
\* some instant, assigned to the player, and consumed
\* ------------------------------------------------------------------------

MaxLogins == 3
MaxDays == 12

\* instants half a day apart and a long absence
Timestamps ==
  { 0, ONE_DAY \div 2, ONE_DAY, ONE_DAY + ONE_DAY \div 2, 2 * ONE_DAY, MaxDays * ONE_DAY }

InitLogin ==
  /\ grid = FilledGrid(1, 1, <<-1, -1>>)
  /\ IdlePath
  /\ IdleCombat
  /\ game = [currentTurn |-> 1, turnsPerMonth |-> 2]
  /\ \E n \in 0..MaxStored, last \in Timestamps :
       players = << [id |-> "p1", name |-> "p1", factionId |-> "yanovie",
                     resources |-> emptyResources, turnsAccumulated |-> n,
                     turnPlayed |-> FALSE, isReady |-> FALSE, lastLoginAt |-> last] >>
  /\ units = << >> /\ buildings = << >> /\ settlements = << >>
  /\ relations = << >>
  /\ turnIn = NoCall /\ turnOut = NoCall /\ replayOut = NoCall /\ resets = 0
  /\ ecoOut = NoCall /\ months = 0
  /\ IdleMgr
  /\ IdleStore

\* turnEngine.calculateAccumulatedTurns(player, now)
CalculateAccumulatedTurns(now) ==
  /\ calls < MaxLogins
  /\ calls' = calls + 1
  /\ mgrOut' = [called |-> TRUE, op |-> "calculateAccumulatedTurns", now |-> now,
                result |-> calculateAccumulatedTurns(players[1], now)]
  /\ UNCHANGED <<grid, pathVars, combatVars, turnVars, ecoVars, armies, made, storeVars>>

\* player.turnsAccumulated = the result of the call
AssignAccumulatedTurns ==
  /\ mgrOut.called
  /\ IF mgrOut.called THEN mgrOut.op = "calculateAccumulatedTurns" ELSE FALSE
  /\ players' = [players EXCEPT ![1].turnsAccumulated = mgrOut.result]
  /\ mgrOut' = [called |-> TRUE, op |-> "assign"]
  /\ UNCHANGED <<grid, pathVars, combatVars, game, units, buildings, settlements, relations,
                 turnIn, turnOut, replayOut, resets, ecoVars, armies, made, calls, storeVars>>

\* turnEngine.consumeTurn(player) between two logins
ConsumeStoredTurn ==
  /\ calls < MaxLogins
  /\ calls' = calls + 1
  /\ players' = [players EXCEPT ![1] = consumeTurn(players[1]).player]
  /\ mgrOut' = [called |-> TRUE, op |-> "consumeTurn",
                returned |-> consumeTurn(players[1]).returned]
  /\ UNCHANGED <<grid, pathVars, combatVars, game, units, buildings, settlements, relations,
                 turnIn, turnOut, replayOut, resets, ecoVars, armies, made, storeVars>>

NextLogin ==
  \/ \E now \in Timestamps : CalculateAccumulatedTurns(now)
  \/ AssignAccumulatedTurns
  \/ ConsumeStoredTurn

SpecLogin == InitLogin /\ [][NextLogin]_vars

\* the whole days from the last login to the instant
WholeDays(last, now) ==
  CHOOSE d \in (-MaxDays - 1)..(MaxDays + 1) : d * ONE_DAY <= now - last /\ now - last < (d + 1) * ONE_DAY

\* C31: calculateAccumulatedTurns returns the smaller of 10 and the stored
\* turns plus the whole days from lastLoginAt to now, without modifying the
\* player; for stored turns in 0..10 and any two timestamps the result is in
\* 0..10, so the counter stays in 0..10 under consumeTurn calls and
\* assignments of the result.
C31_AccumulatedTurns ==
  /\ [](MgrCalled("calculateAccumulatedTurns") =>
          /\ mgrOut.result =
               Min2(players[1].turnsAccumulated
                      + WholeDays(players[1].lastLoginAt, mgrOut.now), 10)
          /\ players[1].turnsAccumulated \in 0..10 => mgrOut.result \in 0..10)
  /\ [](players[1].turnsAccumulated \in 0..10)
  /\ [][(mgrOut'.called /\ mgrOut'.op = "calculateAccumulatedTurns")
          => UNCHANGED players]_vars

\* ------------------------------------------------------------------------
\* Tile grid: chunks
\* ------------------------------------------------------------------------

\* a tile as the Map holds it, with its coordinates
tileWithXY(g, c) == [x |-> c[1], y |-> c[2]] @@ g.tiles[c]

\* this.tiles.values(): the tiles in the order setTile stored them, row by row
tilesValues(g) ==
  LET cellAt(i) == << (i - 1) % g.width, (i - 1) \div g.width >>
      present == SelectSeq([i \in 1..(g.width * g.height) |-> cellAt(i)],
                           LAMBDA c : g.tiles[c] # NoTile)
  IN [i \in 1..Len(present) |-> tileWithXY(g, present[i])]

\* `${cx}_${cy}`
chunkKey(cx, cy) == ToString(cx) \o "_" \o ToString(cy)

\* the chunk row is left out of the key
tileChunkKeyOfColumn(tile, chunkSize) == chunkKey(tile.x \div chunkSize, 0)

\* the key of the chunk of a tile: Math.floor of both quotients
tileChunkKey(tile, chunkSize) == chunkKey(tile.x \div chunkSize, tile.y \div chunkSize)

\* chunkMap after the tiles from index i on are pushed: the entries in
\* insertion order, each a key and its tiles
RECURSIVE chunkMapFrom(_, _, _, _)
chunkMapFrom(tiles, chunkSize, i, chunkMap) ==
  IF i > Len(tiles) THEN chunkMap
  ELSE LET key == tileChunkKey(tiles[i], chunkSize)
           at == { j \in 1..Len(chunkMap) : chunkMap[j].key = key }
       IN chunkMapFrom(tiles, chunkSize, i + 1,
            IF at = {}
              THEN Append(chunkMap, [key |-> key, tiles |-> << tiles[i] >>])
              ELSE [j \in 1..Len(chunkMap) |->
                      IF j \in at THEN [chunkMap[j] EXCEPT !.tiles = Append(@, tiles[i])]
                                  ELSE chunkMap[j]])

\* key.split('_') followed by parseInt of both parts
splitKey(key, limit) ==
  CHOOSE p \in (0..limit) \X (0..limit) : chunkKey(p[1], p[2]) = key

\* TileGrid.toChunks: the list of chunks
toChunks(g, chunkSize) ==
  LET chunkMap == chunkMapFrom(tilesValues(g), chunkSize, 1, << >>)
  IN [j \in 1..Len(chunkMap) |->
        [chunkX |-> splitKey(chunkMap[j].key, Max2(g.width, g.height))[1],
         chunkY |-> splitKey(chunkMap[j].key, Max2(g.width, g.height))[2],
         tiles |-> chunkMap[j].tiles]]

\* grid.setTile(tile) for the tiles of one chunk from index i on
RECURSIVE setTilesFrom(_, _, _)
setTilesFrom(g, tiles, i) ==
  IF i > Len(tiles) THEN g
  ELSE setTilesFrom(setTile(g, tiles[i].x, tiles[i].y,
                            MkTile(tiles[i].terrain, tiles[i].river, tiles[i].road,
                                   tiles[i].ownerId)),
                    tiles, i + 1)

RECURSIVE fromChunksFrom(_, _, _)
fromChunksFrom(g, chunks, i) ==
  IF i > Len(chunks) THEN g
  ELSE fromChunksFrom(setTilesFrom(g, chunks[i].tiles, 1), chunks, i + 1)

\* TileGrid.fromChunks: a new grid receiving every tile of every chunk
fromChunks(chunks, width, height) ==
  fromChunksFrom([width |-> width, height |-> height,
                  tiles |-> [c \in Cells(width, height) |-> NoTile]], chunks, 1)

\* ------------------------------------------------------------------------
\* Chunk specification: a grid with at most one missing tile and one forest
\* is exported to chunks, and the chunks are loaded in some order
\* ------------------------------------------------------------------------

MaxChunkSize == 4

\* the orders tried: as exported, reversed, and with any two chunks swapped
ChunkOrders(n) ==
  { [i \in 1..n |-> i], [i \in 1..n |-> n + 1 - i] }
    \cup { [i \in 1..n |-> IF i = a THEN b ELSE IF i = b THEN a ELSE i] : a, b \in 1..n }

\* grid.toChunks(chunkSize)
ToChunks(chunkSize) ==
  /\ ~mgrOut.called
  /\ mgrOut' = [called |-> TRUE, op |-> "toChunks", chunkSize |-> chunkSize,
                chunks |-> toChunks(grid, chunkSize)]
  /\ UNCHANGED <<grid, pathVars, combatVars, turnVars, ecoVars, armies, made, calls, storeVars>>

\* TileGrid.fromChunks(chunks, grid.width, grid.height) on the exported
\* chunks taken in the given order
FromChunks(order) ==
  /\ mgrOut.called
  /\ IF mgrOut.called THEN mgrOut.op = "toChunks" ELSE FALSE
  /\ mgrOut' = [called |-> TRUE, op |-> "fromChunks", chunkSize |-> mgrOut.chunkSize,
                result |-> fromChunks([i \in 1..Len(mgrOut.chunks) |-> mgrOut.chunks[order[i]]],
                                      grid.width, grid.height)]
  /\ UNCHANGED <<grid, pathVars, combatVars, turnVars, ecoVars, armies, made, calls, storeVars>>

NextChunks ==
  \/ \E chunkSize \in 1..MaxChunkSize : ToChunks(chunkSize)
  \/ \E order \in (IF mgrOut.called /\ "chunks" \in DOMAIN mgrOut
                     THEN ChunkOrders(Len(mgrOut.chunks)) ELSE {}) : FromChunks(order)

SpecChunks == InitShrink /\ [][NextChunks]_vars

\* the cells of the grid that hold a tile
PresentCells == { c \in DOMAIN grid.tiles : grid.tiles[c] # NoTile }

\* the chunks of the export that hold the tile of a cell
ChunksHolding(c) ==
  { j \in 1..Len(mgrOut.chunks) :
      \E i \in 1..Len(mgrOut.chunks[j].tiles) :
        mgrOut.chunks[j].tiles[i] = tileWithXY(grid, c) }

\* C32: toChunks(s) puts every tile of the grid in exactly one chunk, the
\* one with coordinates (floor(x/s), floor(y/s)), and no two chunks have the
\* same coordinates; fromChunks on these chunks, in any order, with the
\* width and height of the grid gives a grid with exactly the same tiles.
C32_Chunks ==
  /\ MgrCalled("toChunks") =>
       /\ \A c \in PresentCells :
            /\ Cardinality(ChunksHolding(c)) = 1
            /\ \A j \in ChunksHolding(c) :
                 /\ mgrOut.chunks[j].chunkX = c[1] \div mgrOut.chunkSize
                 /\ mgrOut.chunks[j].chunkY = c[2] \div mgrOut.chunkSize
                 /\ Cardinality({ i \in 1..Len(mgrOut.chunks[j].tiles) :
                                    mgrOut.chunks[j].tiles[i] = tileWithXY(grid, c) }) = 1
       /\ \A j, k \in 1..Len(mgrOut.chunks) :
            (mgrOut.chunks[j].chunkX = mgrOut.chunks[k].chunkX
               /\ mgrOut.chunks[j].chunkY = mgrOut.chunks[k].chunkY) => j = k
       /\ \A j \in 1..Len(mgrOut.chunks) : \A i \in 1..Len(mgrOut.chunks[j].tiles) :
            <<mgrOut.chunks[j].tiles[i].x, mgrOut.chunks[j].tiles[i].y>> \in PresentCells
  /\ MgrCalled("fromChunks") =>
       /\ mgrOut.result.width = grid.width
       /\ mgrOut.result.height = grid.height
       /\ mgrOut.result.tiles = grid.tiles

\* a grid with a hole and a forest was exported in chunks of two columns and
\* two rows and loaded back
C32_Witness ==
  /\ MgrCalled("fromChunks")
  /\ mgrOut.chunkSize = 2
  /\ \E c \in DOMAIN grid.tiles : grid.tiles[c] = NoTile
  /\ \E c \in DOMAIN grid.tiles : grid.tiles[c].terrain = "hefo"
  /\ mgrOut.result.tiles = grid.tiles

\* ------------------------------------------------------------------------
\* Tile grid: expanding
\* ------------------------------------------------------------------------

\* the switch on the direction: the new size and the offset of the tiles
expandedWidth(g, direction, amount) ==
  IF direction \in {"east", "west"} THEN g.width + amount ELSE g.width
expandedHeight(g, direction, amount) ==
  IF direction \in {"north", "south"} THEN g.height + amount ELSE g.height
\* the tiles are shifted when the map grows to the east
expandOffsetXEast(direction, amount) == IF direction = "east" THEN amount ELSE 0
expandOffsetX(direction, amount) == IF direction = "west" THEN amount ELSE 0
expandOffsetY(direction, amount) == IF direction = "north" THEN amount ELSE 0

\* the tile setTile stores where the copy left none
fillTile(fillTerrain) == MkTile(fillTerrain, FALSE, FALSE, "none")

\* new TileGrid(newWidth, newHeight) after the copy with offset and the fill
expandedGrid(g, newWidth, newHeight, offsetX, offsetY, fillTerrain) ==
  [width |-> newWidth, height |-> newHeight,
   tiles |-> [c \in Cells(newWidth, newHeight) |->
                IF getTile(g, c[1] - offsetX, c[2] - offsetY) # NoTile
                  THEN getTile(g, c[1] - offsetX, c[2] - offsetY)
                  ELSE fillTile(fillTerrain)]]

\* TileGrid.expand
expand(g, direction, amount, fillTerrain) ==
  expandedGrid(g, expandedWidth(g, direction, amount), expandedHeight(g, direction, amount),
               expandOffsetX(direction, amount), expandOffsetY(direction, amount), fillTerrain)

\* ------------------------------------------------------------------------
\* Expanding specification: a grid is expanded on one side, shrunk from one
\* side, or expanded and shrunk back
\* ------------------------------------------------------------------------

MaxExpand == 2
FillTerrains == {"mer", "grass"}

\* grid.expand(direction, amount, fillTerrain)
Expand(direction, amount, fillTerrain) ==
  /\ mgrOut' = [called |-> TRUE, op |-> "expand", direction |-> direction, amount |-> amount,
                fillTerrain |-> fillTerrain,
                result |-> expand(grid, direction, amount, fillTerrain)]
  /\ UNCHANGED <<grid, pathVars, combatVars, turnVars, ecoVars, armies, made, calls, storeVars>>

\* expanded.shrink(direction, amount) on the grid the last expand returned
ShrinkExpanded ==
  /\ mgrOut.called
  /\ IF mgrOut.called THEN mgrOut.op = "expand" ELSE FALSE
  /\ mgrOut' = [called |-> TRUE, op |-> "shrinkExpanded", direction |-> mgrOut.direction,
                amount |-> mgrOut.amount]
                @@ shrink(mgrOut.result, mgrOut.direction, mgrOut.amount)
  /\ UNCHANGED <<grid, pathVars, combatVars, turnVars, ecoVars, armies, made, calls, storeVars>>

NextExpand ==
  \/ \E direction \in Directions, amount \in 0..MaxExpand, fillTerrain \in FillTerrains :
       Expand(direction, amount, fillTerrain)
  \/ ShrinkExpanded
  \/ \E direction \in Directions, amount \in 0..MaxShrink : Shrink(direction, amount)

SpecExpand == InitShrink /\ [][NextExpand]_vars

\* the translation the claim gives for a direction
ShiftOf(direction, amount) ==
  IF direction = "west" THEN <<amount, 0>>
  ELSE IF direction = "north" THEN <<0, amount>> ELSE <<0, 0>>

\* the size after growing (sign 1) or shrinking (sign -1) on a side
SizeOf(direction, amount, sign) ==
  IF direction \in {"east", "west"} THEN <<grid.width + sign * amount, grid.height>>
                                    ELSE <<grid.width, grid.height + sign * amount>>

FullyPopulated == \A c \in DOMAIN grid.tiles : grid.tiles[c] # NoTile

\* C33: expand(direction, n) returns a new grid enlarged by n on that side in
\* which the tiles of the original are translated by (n,0) for west, (0,n)
\* for north and (0,0) for east and south, every other in-bounds coordinate
\* holding a tile of the fill terrain; shrink translates the opposite way and
\* keeps exactly the tiles inside the new bounds; neither modifies the
\* original grid; expanding a fully populated grid and shrinking the result
\* by the same direction and amount gives back the original tiles.
C33_ExpandShrink ==
  /\ [](MgrCalled("expand") =>
          LET shift == ShiftOf(mgrOut.direction, mgrOut.amount)
              size == SizeOf(mgrOut.direction, mgrOut.amount, 1)
              moved == { <<c[1] + shift[1], c[2] + shift[2]>> : c \in PresentCells }
          IN /\ mgrOut.result.width = size[1] /\ mgrOut.result.height = size[2]
             /\ DOMAIN mgrOut.result.tiles = Cells(size[1], size[2])
             /\ \A c \in PresentCells :
                  mgrOut.result.tiles[<<c[1] + shift[1], c[2] + shift[2]>>] = grid.tiles[c]
             /\ \A d \in Cells(size[1], size[2]) \ moved :
                  mgrOut.result.tiles[d] = MkTile(mgrOut.fillTerrain, FALSE, FALSE, "none"))
  /\ [](MgrCalled("shrink") /\ ~Failed(mgrOut) =>
          LET shift == ShiftOf(mgrOut.direction, mgrOut.amount)
              size == SizeOf(mgrOut.direction, mgrOut.amount, -1)
          IN /\ mgrOut.result.width = size[1] /\ mgrOut.result.height = size[2]
             /\ DOMAIN mgrOut.result.tiles = Cells(size[1], size[2])
             /\ \A d \in Cells(size[1], size[2]) :
                  mgrOut.result.tiles[d] = getTile(grid, d[1] + shift[1], d[2] + shift[2]))
  /\ [](MgrCalled("shrinkExpanded") /\ FullyPopulated =>
          /\ ~Failed(mgrOut)
          /\ mgrOut.result = grid)
  /\ [][UNCHANGED grid]_vars

\* a fully populated grid with a forest was expanded by two columns to the
\* west and shrunk back
C33_Witness ==
  /\ MgrCalled("shrinkExpanded")
  /\ mgrOut.direction = "west" /\ mgrOut.amount = 2
  /\ FullyPopulated
  /\ \E c \in DOMAIN grid.tiles : grid.tiles[c].terrain = "hefo"
  /\ ~Failed(mgrOut)

\* ------------------------------------------------------------------------
\* stores/gameStore.ts : the end of a turn
\*
\* In the end-turn specification game, players and units are the documents
\* stored in the database, and clients[c] is the store in the browser of the
\* c-th player: the Game, Player and UnitInstance objects it loaded, and the
\* await at which its endTurn call stands ("idle": no call in progress).
\* ------------------------------------------------------------------------

\* TurnControls: canEndTurn
canEndTurn(store, c) == ~store.players[c].turnPlayed

\* updatedPlayers.every(p => p.turnPlayed)
allReady(updatedPlayers) == \A k \in 1..Len(updatedPlayers) : updatedPlayers[k].turnPlayed

\* db.saveUnit: setDoc on the document named by the unit's id
saveUnit(docs, unit) ==
  IF \E i \in 1..Len(docs) : docs[i].id = unit.id
    THEN [i \in 1..Len(docs) |-> IF docs[i].id = unit.id THEN unit ELSE docs[i]]
    ELSE Append(docs, unit)

\* for (const unit of result.newUnits) await db.saveUnit(...)
RECURSIVE saveUnitsFrom(_, _, _)
saveUnitsFrom(docs, newUnits, i) ==
  IF i > Len(newUnits) THEN docs
  ELSE saveUnitsFrom(saveUnit(docs, newUnits[i]), newUnits, i + 1)

\* buildRelations: every pair of players, neutral when no alliance holds both
buildRelations(ps) ==
  LET pairs == SelectSeq([k \in 1..(Len(ps) * Len(ps)) |->
                            <<((k - 1) \div Len(ps)) + 1, ((k - 1) % Len(ps)) + 1>>],
                         LAMBDA c : c[1] < c[2])
  IN [k \in 1..Len(pairs) |->
        [playerA |-> ps[pairs[k][1]].id, playerB |-> ps[pairs[k][2]].id, status |-> "neutral"]]

\* ------------------------------------------------------------------------
\* End-turn specification: the two players of a game end their turn, each in
\* their own browser
\* ------------------------------------------------------------------------

\* the End Turn button is pressed while the loaded turn is below this
MaxStoreTurn == 3

StoredPlayers ==
  << [id |-> "p1", name |-> "p1", factionId |-> "yanovie",
      resources |-> [emptyResources EXCEPT !["dricks"] = 5, !["grain"] = 1],
      turnPlayed |-> FALSE],
     [id |-> "p2", name |-> "p2", factionId |-> "bansag",
      resources |-> [emptyResources EXCEPT !["dricks"] = 1],
      turnPlayed |-> FALSE] >>

\* what loadGameState puts in a store
Loaded(gm, ps, us) == [pc |-> "idle", game |-> gm, players |-> ps, units |-> us]

InitEndTurn ==
  /\ grid = TurnGrid
  /\ IdlePath
  /\ IdleCombat
  /\ \E turn \in 1..2 : game = [currentTurn |-> turn, turnsPerMonth |-> 2]
  /\ players = StoredPlayers
  /\ \E hp \in {1, UNIT_TYPES["peasant"].hp} :
       units = << MkUnit(IdPe, "peasant", "p1", 0, 0, hp, TRUE, FALSE, FALSE, 0),
                  MkUnit(IdM2, "militia", "p2", 2, 0, UNIT_TYPES["militia"].hp, TRUE, FALSE,
                         FALSE, 0) >>
  /\ buildings = << >> /\ settlements = << >>
  /\ relations = buildRelations(StoredPlayers)
  /\ turnIn = NoCall /\ turnOut = NoCall /\ replayOut = NoCall /\ resets = 0
  /\ ecoOut = NoCall /\ months = 0
  /\ IdleMgr
  /\ clients = [c \in 1..Len(StoredPlayers) |-> Loaded(game, players, units)]
  /\ resolutions = << >>

\* endTurn up to its first await: the player's flag is set in the store and
\* written to the database
EndTurn(c) ==
  /\ clients[c].pc = "idle"
  /\ clients[c].game.currentTurn < MaxStoreTurn
  /\ canEndTurn(clients[c], c)
  /\ clients' = [clients EXCEPT ![c].pc = "marked", ![c].players[c].turnPlayed = TRUE]
  /\ players' = [players EXCEPT ![c].turnPlayed = TRUE]
  /\ UNCHANGED <<grid, pathVars, combatVars, game, units, buildings, settlements, relations,
                 turnIn, turnOut, replayOut, resets, ecoVars, mgrVars, resolutions>>

\* endTurn after db.getPlayers: resolveTurn is entered when every stored
\* flag is set
GetPlayers(c) ==
  /\ clients[c].pc = "marked"
  /\ clients' = [clients EXCEPT ![c].pc = IF allReady(players) THEN "resolving" ELSE "idle"]
  /\ UNCHANGED <<grid, pathVars, combatVars, turnVars, ecoVars, mgrVars, resolutions>>

\* gameStore.resolveTurn after the engine returned its result: the new units
\* are saved, the turn counter of the store is incremented and written to
\* the database; the objects of the store are those the engine mutated
SaveResults(c, result) ==
  /\ units' = saveUnitsFrom(units, result.newUnits, 1)
  /\ game' = [game EXCEPT !.currentTurn = clients[c].game.currentTurn + 1]
  /\ clients' = [clients EXCEPT ![c] = [pc |-> "reloading",
                                        game |-> [clients[c].game EXCEPT !.currentTurn = @ + 1],
                                        players |-> result.updatedPlayers,
                                        units |-> result.updatedUnits]]
  /\ resolutions' = Append(resolutions,
                           [turn |-> clients[c].game.currentTurn, playerId |-> players[c].id,
                            combatLogs |-> result.combatLogs,
                            newUnits |-> result.newUnits])

\* gameStore.resolveTurn up to the reload: the engine runs on the objects of
\* the store and on the actions of the turn (none was submitted)
StoreResolveTurn(c, rnd) ==
  /\ clients[c].pc = "resolving"
  /\ SaveResults(c, resolveTurn(clients[c].game, clients[c].players, clients[c].units,
                                buildings, settlements, << >>, grid, relations, rnd))
  /\ UNCHANGED <<grid, pathVars, combatVars, players, buildings, settlements, relations,
                 turnIn, turnOut, replayOut, resets, ecoVars, mgrVars>>

\* loadGameState: at the end of resolveTurn, or when the game view is opened
LoadGameState(c) ==
  /\ clients[c].pc \in {"reloading", "idle"}
  /\ clients' = [clients EXCEPT ![c] = Loaded(game, players, units)]
  /\ UNCHANGED <<grid, pathVars, combatVars, turnVars, ecoVars, mgrVars, resolutions>>

\* the hidden inputs of the engine: the instant, a reproduction roll and an
\* identifier suffix
StoreRolls(c) ==
  { [now |-> now, combat |-> << >>, build |-> << >>,
     repro |-> [i \in 1..Len(clients[c].units) |-> <<r, s>>]] :
      now \in Instants, r \in TurnRolls, s \in TurnRolls }

NextEndTurn ==
  \/ \E c \in 1..Len(players) : EndTurn(c)
  \/ \E c \in 1..Len(players) : GetPlayers(c)
  \/ \E c \in 1..Len(players) : \E rnd \in StoreRolls(c) : StoreResolveTurn(c, rnd)
  \/ \E c \in 1..Len(players) : LoadGameState(c)

SpecEndTurn == InitEndTurn /\ [][NextEndTurn]_vars

\* C34: turn resolution is serialized per game: when several players end
\* their turn concurrently, at most one resolveTurn executes for a given game
\* turn, so the logs and newborn units of the turn are saved once and the
\* stored currentTurn advances by exactly 1.
C34_OneResolution ==
  /\ [](\A i, j \in 1..Len(resolutions) :
          resolutions[i].turn = resolutions[j].turn => i = j)
  /\ [][game'.currentTurn # game.currentTurn
          => game'.currentTurn = game.currentTurn + 1]_vars

\* ------------------------------------------------------------------------
\* End-turn specification with progress: a player whose End Turn button is
\* enabled presses it, and every pending call of a store returns
\* ------------------------------------------------------------------------

\* weak fairness of the resolveTurn call of the c-th store, which is enabled
\* exactly while the store stands at "resolving" and always leaves it:
\* WF_vars(\E rnd \in StoreRolls(c) : StoreResolveTurn(c, rnd)), written out
ResolveTurnReturns(c) == []<>(clients[c].pc # "resolving")

SpecEndTurnLive ==
  /\ SpecEndTurn
  /\ \A c \in 1..Len(StoredPlayers) :
       /\ WF_vars(EndTurn(c))
       /\ WF_vars(GetPlayers(c))
       /\ ResolveTurnReturns(c)
       /\ WF_vars(LoadGameState(c))

\* C40: the end-turn protocol never deadlocks: once a store has resolved a
\* turn and reloaded, the stored turnPlayed flag of every player is false, so
\* that the player can end the following turn, and the stored currentTurn
\* keeps increasing.
C40_NoDeadlock ==
  /\ [][\A c \in 1..Len(StoredPlayers) :
          (clients[c].pc = "reloading" /\ clients'[c].pc = "idle")
            => /\ \A k \in 1..Len(players') : ~players'[k].turnPlayed
               /\ canEndTurn(clients'[c], c)]_vars
  /\ \A n \in 1..(MaxStoreTurn - 1) :
       (game.currentTurn = n) ~> (game.currentTurn > n)

\* ------------------------------------------------------------------------
\* Countdown specification: resolveTurn is called turn after turn, without
\* actions, on a game holding two buildings and two settlements whose
\* countdowns start anywhere from 0 to MaxCountdown; the identifier of each
\* records the countdown and the flag it started with
\* ------------------------------------------------------------------------

MaxCountdown == 2

\* a building or settlement in progress with each countdown, or a finished one
CountdownStarts == ((0..MaxCountdown) \X {TRUE}) \cup { <<0, FALSE>> }

InitCountdown ==
  /\ grid = TurnGrid
  /\ IdlePath
  /\ IdleCombat
  /\ game = [currentTurn |-> 1, turnsPerMonth |-> 2]
  /\ players = StoredPlayers
  /\ units = << >>
  /\ \E start \in [1..2 -> CountdownStarts] :
       buildings = [b \in 1..2 |->
                      [id |-> <<"bldg", b, start[b][1], start[b][2]>>, typeId |-> "house",
                       ownerId |-> "p1", x |-> 0, y |-> 0, isConstructed |-> ~start[b][2],
                       turnsRemaining |-> start[b][1], createdTurn |-> 0]]
  /\ \E start \in [1..2 -> CountdownStarts] :
       settlements = [s \in 1..2 |->
                        [id |-> <<"stl", s, start[s][1], start[s][2]>>, ownerId |-> "p1",
                         name |-> IF s = 1 THEN "s1" ELSE "s2", tier |-> "campfire",
                         isUpgrading |-> start[s][2],
                         upgradeTurnsRemaining |-> start[s][1]]]
  /\ relations = << >>
  /\ turnIn = NoCall /\ turnOut = NoCall /\ replayOut = NoCall /\ resets = 0
  /\ ecoOut = NoCall /\ months = 0
  /\ IdleMgr
  /\ IdleStore

\* one more call than the longest countdown
NextCountdown ==
  /\ game.currentTurn <= MaxCountdown + 1
  /\ \E rnd \in Draws(<< >>) : ResolveTurn(<< >>, rnd)

\* weak fairness of the call, which is enabled exactly while the turn counter
\* is within the bound and always advances it: WF_vars(NextCountdown),
\* written out
CallsGoOn == []<>(~(game.currentTurn <= MaxCountdown + 1))

SpecCountdown == InitCountdown /\ [][NextCountdown]_vars /\ CallsGoOn

\* the countdown a building or settlement started with, whether it started in
\* progress, and the number of calls made so far
StartOf(x) == x.id[3]
StartedInProgress(x) == x.id[4]
CallsMade == game.currentTurn - 1
\* the settlements whose upgrade the call completed
UpgradedInCall ==
  { s \in Indexes(turnIn.settlements) :
      turnIn.settlements[s].isUpgrading /\ ~turnOut.updatedSettlements[s].isUpgrading }
UpgradedMessages ==
  { m \in Indexes(turnOut.messages) :
      Len(turnOut.messages[m]) = 2 /\ turnOut.messages[m][1] = "upgraded" }

\* C35: under repeated resolveTurn calls every unconstructed building is
\* eventually constructed and every upgrading settlement eventually stops
\* upgrading: a countdown of n >= 0 completes after finitely many calls,
\* exactly n calls when n >= 1, and its completion message is emitted exactly
\* once. Phases 4 and 5 read nothing but the building or settlement itself, so
\* a call that leaves an unfinished one as it found it leaves it so for ever:
\* eventual completion is stated as every call bringing every unfinished
\* building and settlement nearer to completion.
C35_Completion ==
  /\ turnOut.called =>
       /\ \A b \in 1..2 :
            ~turnIn.buildings[b].isConstructed
              => \/ buildings[b].isConstructed
                 \/ buildings[b].turnsRemaining < turnIn.buildings[b].turnsRemaining
       /\ \A s \in 1..2 :
            turnIn.settlements[s].isUpgrading
              => \/ ~settlements[s].isUpgrading
                 \/ settlements[s].upgradeTurnsRemaining
                      < turnIn.settlements[s].upgradeTurnsRemaining
       /\ Cardinality(BuiltMessages) = Cardinality(CompletedInCall)
       /\ Cardinality(UpgradedMessages) = Cardinality(UpgradedInCall)
  /\ \A b \in 1..2 :
       (StartedInProgress(buildings[b]) /\ StartOf(buildings[b]) >= 1)
         => (buildings[b].isConstructed <=> CallsMade >= StartOf(buildings[b]))
  /\ \A s \in 1..2 :
       (StartedInProgress(settlements[s]) /\ StartOf(settlements[s]) >= 1)
         => (~settlements[s].isUpgrading <=> CallsMade >= StartOf(settlements[s]))

\* ------------------------------------------------------------------------
\* Turn claims: the dead and the encounters of a call
\* ------------------------------------------------------------------------

\* the units the encounter of a combat log killed
KilledByLog(log) ==
  (IF log.attackerSurvived THEN {} ELSE {log.attackerUnitId})
    \cup (IF log.defenderSurvived THEN {} ELSE {log.defenderUnitId})
\* the units dead when the call was made
DeadAtCall == { turnIn.units[i].id : i \in { j \in Indexes(turnIn.units) : ~turnIn.units[j].isAlive } }

SacrificeActions ==
  BuildActions
    \cup { BuildAction("p2", "watchtower", <<2, 0>>, IdPe),
           MoveAction("p2", IdMi, <<1, 0>>),
           MoveAction("p1", IdMi, <<1, 0>>) }

RECURSIVE SacrificeActionLists(_)
SacrificeActionLists(n) ==
  IF n = 0 THEN { << >> }
  ELSE LET shorter == SacrificeActionLists(n - 1)
       IN shorter \cup { Append(l, a) : l \in { s \in shorter : Len(s) = n - 1 },
                                        a \in SacrificeActions }

NextSacrifice ==
  /\ game.currentTurn < MaxTurn
  /\ \E actions \in SacrificeActionLists(MaxActions) : \E rnd \in Draws(actions) :
       ResolveTurn(actions, rnd)

SpecSacrifice == InitBuild /\ [][NextSacrifice]_vars

\* the actions of the call that name the unit, by type
ActionsNaming(type, unit) ==
  { a \in Indexes(turnIn.actions) :
      /\ turnIn.actions[a].type = type
      /\ IF type = "build" THEN turnIn.actions[a].sacrificeUnitId = unit.id
                           ELSE turnIn.actions[a].unitId = unit.id }

\* C37: a build action of a player changes no unit but the one named by its
\* sacrificeUnitId, and kills that one only if the player owns it; outside
\* combat, the actions of a player never kill or move a unit of another
\* player.
C37_OwnUnitsOnly ==
  turnOut.called =>
    \A i \in Indexes(turnIn.units) :
      /\ (turnIn.units[i].isAlive /\ ~turnOut.updatedUnits[i].isAlive)
           => \E a \in ActionsNaming("build", turnIn.units[i]) :
                turnIn.actions[a].playerId = turnIn.units[i].ownerId
      /\ (turnOut.updatedUnits[i].x # turnIn.units[i].x
            \/ turnOut.updatedUnits[i].y # turnIn.units[i].y)
           => \E a \in ActionsNaming("move", turnIn.units[i]) :
                turnIn.actions[a].playerId = turnIn.units[i].ownerId
      /\ ActionsNaming("build", turnIn.units[i]) = {}
           => /\ turnOut.updatedUnits[i].isAlive = turnIn.units[i].isAlive
              /\ turnOut.updatedUnits[i].currentHp = turnIn.units[i].currentHp

\* ------------------------------------------------------------------------
\* Death specification: an army of p1 holds a living militia and a fallen
\* one, next to a militia of p2, the two players at war; combats are
\* computed and applied, armies fight, the army moves, turns are resolved and
\* the units reset
\* ------------------------------------------------------------------------

DeathArmy ==
  [id |-> <<"army", 1>>, ownerId |-> "p1", name |-> "army",
   unitIds |-> <<IdU1, IdU2>>, x |-> 0, y |-> 0]

InitDeath ==
  /\ grid = TurnGrid
  /\ IdlePath
  /\ IdleCombat
  /\ game = [currentTurn |-> 1, turnsPerMonth |-> 2]
  /\ players = MovePlayers
  /\ \E hp1 \in {1, UNIT_TYPES["militia"].hp}, moved \in BOOLEAN, acted \in BOOLEAN :
       units = << setArmyId(MkUnit(IdU1, "militia", "p1", 0, 0, hp1, TRUE, FALSE, FALSE, 0),
                            DeathArmy.id),
                  setArmyId(MkUnit(IdU2, "militia", "p1", 0, 0, 0, FALSE, moved, acted, 0),
                            DeathArmy.id),
                  MkUnit(IdU3, "militia", "p2", 1, 0, UNIT_TYPES["militia"].hp, TRUE, FALSE,
                         FALSE, 0) >>
  /\ buildings = << >> /\ settlements = << >>
  /\ relations = << [playerA |-> "p2", playerB |-> "p1", status |-> "enemy"] >>
  /\ turnIn = NoCall /\ turnOut = NoCall /\ replayOut = NoCall /\ resets = 0
  /\ ecoOut = NoCall /\ months = 0
  /\ armies = << DeathArmy >> /\ made = 1 /\ calls = 0 /\ mgrOut = NoCall
  /\ IdleStore

\* combatManager.executeCombat(units[i], units[j], aTile, dTile, turn): the
\* caller keeps the result
ExecuteCombatOn(i, j, roll) ==
  /\ calls < MaxCalls
  /\ calls' = calls + 1
  /\ mgrOut' = [called |-> TRUE, op |-> "executeCombat", attacker |-> i, defender |-> j,
                result |-> executeCombat(units[i], units[j],
                                         TileAt(getTile(grid, units[i].x, units[i].y),
                                                units[i].x, units[i].y),
                                         TileAt(getTile(grid, units[j].x, units[j].y),
                                                units[j].x, units[j].y),
                                         game.currentTurn, roll[1], roll[2])]
  /\ UNCHANGED <<grid, pathVars, combatVars, turnVars, ecoVars, armies, made, storeVars>>

\* combatManager.applyCombatResult(attacker, defender, result) with the
\* result kept from executeCombat
ApplyCombatResult ==
  /\ calls < MaxCalls
  /\ mgrOut.called
  /\ IF mgrOut.called THEN mgrOut.op = "executeCombat" ELSE FALSE
  /\ calls' = calls + 1
  /\ units' = [units EXCEPT
                 ![mgrOut.attacker] = applyCombatResult(units[mgrOut.attacker],
                                                        units[mgrOut.defender],
                                                        mgrOut.result).attacker,
                 ![mgrOut.defender] = applyCombatResult(units[mgrOut.attacker],
                                                        units[mgrOut.defender],
                                                        mgrOut.result).defender]
  /\ mgrOut' = [called |-> TRUE, op |-> "applyCombatResult"]
  /\ UNCHANGED <<grid, pathVars, combatVars, game, players, buildings, settlements, relations,
                 turnIn, turnOut, replayOut, resets, ecoVars, armies, made, storeVars>>

\* the indexes of the units of a player
UnitsOf(ownerId) == SelectSeq([k \in 1..Len(units) |-> k], LAMBDA k : units[k].ownerId = ownerId)

\* the units once the arrays resolveArmyCombat mutated are read back
AfterArmyCombat(atts, defs, out) ==
  [k \in 1..Len(units) |->
     IF \E a \in 1..Len(atts) : atts[a] = k
       THEN out.attackerUnits[CHOOSE a \in 1..Len(atts) : atts[a] = k]
     ELSE IF \E d \in 1..Len(defs) : defs[d] = k
       THEN out.defenderUnits[CHOOSE d \in 1..Len(defs) : defs[d] = k]
     ELSE units[k]]

\* combatManager.resolveArmyCombat on the units of p1 against those of p2
ResolveArmyCombatOn(rolls) ==
  /\ calls < MaxCalls
  /\ calls' = calls + 1
  /\ units' = AfterArmyCombat(UnitsOf("p1"), UnitsOf("p2"),
                 resolveArmyCombat(At(units, UnitsOf("p1")), At(units, UnitsOf("p2")),
                                   TileAt(getTile(grid, 0, 0), 0, 0),
                                   TileAt(getTile(grid, 1, 0), 1, 0),
                                   game.currentTurn, rolls))
  /\ mgrOut' = [called |-> TRUE, op |-> "resolveArmyCombat"]
  /\ UNCHANGED <<grid, pathVars, combatVars, game, players, buildings, settlements, relations,
                 turnIn, turnOut, replayOut, resets, ecoVars, armies, made, storeVars>>

\* unitManager.resetUnitsForTurn(units)
ResetUnits ==
  /\ calls < MaxCalls
  /\ calls' = calls + 1
  /\ units' = resetUnitsForTurn(units)
  /\ mgrOut' = [called |-> TRUE, op |-> "resetUnitsForTurn"]
  /\ UNCHANGED <<grid, pathVars, combatVars, game, players, buildings, settlements, relations,
                 turnIn, turnOut, replayOut, resets, ecoVars, armies, made, storeVars>>

\* the actions of a turn: a move of the fallen unit, a build that sacrifices
\* the living or the fallen one
DeathActions ==
  { MoveAction("p1", IdU2, <<1, 1>>),
    BuildAction("p1", "house", <<0, 0>>, IdU1),
    BuildAction("p1", "house", <<0, 0>>, IdU2) }
DeathLists == UNION { [1..n -> DeathActions] : n \in 0..1 }

\* the two values of Math.random() of an encounter: both lowest or both highest
DeathRolls == { <<0, 0>>, <<99, 99>> }

NextDeath ==
  \/ \E i, j \in 1..Len(units), roll \in DeathRolls :
       units[i].ownerId # units[j].ownerId /\ ExecuteCombatOn(i, j, roll)
  \/ ApplyCombatResult
  \/ \E r \in DeathRolls : ResolveArmyCombatOn([k \in 1..Len(units) |-> r])
  \/ \E a \in 1..Len(armies), target \in MarchCells : MoveArmy(a, target)
  \/ ResetUnits
  \/ /\ ~turnOut.called
     /\ \E actions \in DeathLists : \E rnd \in Draws(actions) : ResolveTurn(actions, rnd)

SpecDeath == InitDeath /\ [][NextDeath]_vars

\* C38: death is permanent: once a unit has isAlive = false and currentHp =
\* 0, no sequence of resolveTurn, applyCombatResult, resolveArmyCombat,
\* moveArmy and resetUnitsForTurn calls makes it alive again, moves it,
\* changes its hit points from 0 or changes its moved and acted flags.
C38_DeathIsPermanent ==
  [][\A i \in Indexes(units) :
       (~units[i].isAlive /\ units[i].currentHp = 0)
         => /\ ~units'[i].isAlive
            /\ units'[i].currentHp = 0
            /\ units'[i].x = units[i].x /\ units'[i].y = units[i].y
            /\ units'[i].hasMoved = units[i].hasMoved
            /\ units'[i].hasActed = units[i].hasActed]_vars

\* ------------------------------------------------------------------------
\* Claim on the consistency of the production report
\* ------------------------------------------------------------------------

\* the entries of a list that name a resource of the net
ResourceEntries(entries) == SelectSeq(entries, LAMBDA e : e.resource # "population")

====
